---- MODULE Spec2Model ----
(***************************************************************************)
(* OmniCompiler session service: session create (run_routes.py), the       *)
(* /ws/run/{sid} supervisor and its stdout pump (ws_routes.py).            *)
(*                                                                         *)
(* The specifications of the module:                                       *)
(*   SpecPump    pump_async of ws_run over one stdout byte stream          *)
(*   SpecCreate  create_run / _validate_request and the SESSIONS registry  *)
(*   Spec        create, one attachment, supervise, clean up               *)
(*   SpecLive    Spec under the fairness of the event loop                 *)
(*   SpecShare   several attachments to one session id                     *)
(*   SpecDebug   _handle_python_debug and oc_py_debugger.py                *)
(*   SpecGdb     _handle_cpp_debug, oc_cpp_debugger.py and gdb             *)
(*   SpecLaunch  the docker commands of the run and debug launches         *)
(*   SpecMirror  _handle_python_debug and _handle_js_debug side by side    *)
(*   SpecQuery   the dlv and jdb adapters of _handle_go_debug              *)
(*   SpecInput   oc_py_debugger.py: stdin, its two queues, input()         *)
(*   SpecTalk    ws_run forwarding `in` frames to a child that reads them  *)
(* Text is a sequence of one-character strings; bytes likewise.            *)
(***************************************************************************)
EXTENDS Integers, Sequences, FiniteSets, TLC

VARIABLES
    p_stream,   \* pump: the bytes the child writes to stdout, in order
    p_pos,      \* pump: number of bytes already read
    p_carry,    \* pump: `carry` of pump_async
    p_last,     \* pump: frames sent by the last loop iteration
    p_out,      \* pump: concatenation of the data of all `out` frames so far
    p_nsent,    \* pump: awaiting_input=true frames sent for explicit sentinels
    p_pc,       \* pump: "read" | "done"
    SESSIONS,   \* run_routes.SESSIONS: session id -> session record
    disk,       \* the workdirs that exist on disk
    wdMade,     \* number of tempfile.mkdtemp calls so far (names the next one)
    procs,      \* every child process spawned so far, by pid (its index)
    posts,      \* number of requests POSTed to /run so far
    req,        \* the last request POSTed to /run
    resp,       \* the response to it: [status, detail]
    att,        \* every attachment to /ws/run/{sid} so far, in order of arrival
    d_lang,     \* debug: the language of the session ("" when there is none)
    d_host,     \* debug: the handler: "start" | "loop" | "closed"
    d_list,     \* debug: `breakpoints`, the handler's list
    d_cmds,     \* debug: commands written to the shim and not yet taken by it
    d_events,   \* debug: event lines of the shim not yet read by pump_stdout
    d_wire,     \* debug: the frames sent to the client, in order
    d_run,      \* debug: the debugged program: [state, line, step]
    d_breaks,   \* debug: the breakpoints the debugger holds
    d_count,    \* debug: [sent, acks, frames] counters of the handler
    d_shim,     \* debug: the gdb/MI shim: registry, MI pipes, pending, tasks
    d_probe,    \* debug: an add followed by its remove, and the state before
    adapter,    \* query: a host-side adapter that queries its debugger on a pause
    pyio,       \* input: oc_py_debugger.py between its stdin and its two queues
    talk,       \* talk: a run session whose child reads what the client sends
    mirror,     \* mirror: the python and the js debug handler, fed alike
    launched    \* launch: the docker commands built so far: [lang, mode, step, argv]

pumpVars == <<p_stream, p_pos, p_carry, p_last, p_out, p_nsent, p_pc>>
createVars == <<SESSIONS, disk, wdMade, procs, posts, req, resp>>
dbgVars == <<d_lang, d_host, d_list, d_cmds, d_events, d_wire, d_run, d_breaks,
             d_count, d_shim, d_probe>>
nonPumpVars == <<createVars, att, dbgVars, launched, mirror, adapter, pyio, talk>>
otherVars == <<pumpVars, createVars, att, launched, mirror, adapter, pyio, talk>>
vars == <<pumpVars, createVars, att, dbgVars, launched, mirror, adapter, pyio, talk>>

\* an MI result or async record the shim reads: ^done (with the number of
\* a new breakpoint, or the frames of a stack), ^running, ^error, *stopped
Rec(kind, number, frames) == [kind |-> kind, number |-> number, frames |-> frames]

\* no response yet
NoRes == Rec("none", 0, <<>>)

\* a task of the shim: where it is, the response it was resumed with, the
\* breakpoints apply_breakpoints has still to insert, the line of the stop
\* and the stack handle_stop has parsed
ShimTask(pc) == [pc |-> pc, res |-> NoRes, todo |-> <<>>, top |-> 0, stack |-> <<>>]

\* main() of oc_cpp_debugger.py before anything is sent: no pending future,
\* an empty bp_ids, exit_event clear, pump_commands waiting on CMD_QUEUE, no
\* handle_stop task
ShimIdle ==
    [ids |-> {}, next |-> 1, gin |-> <<>>, exit |-> FALSE,
     pending |-> [owner |-> "none", done |-> FALSE],
     cmd |-> ShimTask("idle"), stop |-> ShimTask("none")]

NoProbe == [phase |-> 0, bp |-> [file |-> <<>>, line |-> 0], list |-> <<>>, ids |-> {}]

\* no debug session is being followed
\* a debug handler as the mirror follows it: the frames it sent, the commands
\* it wrote to its backend, and whether its exit_event is set
NoHandler == [wire |-> <<>>, cmds |-> <<>>, ended |-> FALSE]

MirrorIdle == [py |-> NoHandler, js |-> NoHandler, n |-> 0]

\* no adapter is followed
AdapterIdle ==
    [block |-> "none", script |-> <<>>, out |-> <<>>, stdin |-> <<>>, open |-> FALSE,
     printed |-> 0, pc |-> "done", loop |-> "left", future |-> "none",
     buffer |-> <<>>, evald |-> "none", stack |-> "none", wire |-> <<>>,
     exit_event |-> FALSE, eof |-> FALSE, frames |-> 0]

\* no shim is followed between its stdin and its queues
PyIoIdle ==
    [pipe |-> <<>>, written |-> <<>>, INPUT_QUEUE |-> <<>>, COMMAND_QUEUE |-> <<>>,
     events |-> <<>>, pc |-> "ended", calls |-> 0, early |-> FALSE,
     returned |-> <<>>, handled |-> <<>>, steps |-> 0]

\* no interactive run session is followed
TalkIdle ==
    [prog |-> <<>>, stdin |-> <<>>, buffer |-> <<>>, reads |-> 0, out |-> <<>>,
     carry |-> <<>>, wire |-> <<>>, pc |-> "ended", frames |-> 0]

DebugIdle ==
    /\ d_shim = ShimIdle /\ d_probe = NoProbe
    /\ d_lang = "" /\ d_host = "closed" /\ d_list = <<>> /\ d_cmds = <<>>
    /\ d_events = <<>> /\ d_wire = <<>> /\ d_breaks = {}
    /\ d_run = [state |-> "ended", line |-> 0, step |-> FALSE]
    /\ d_count = [sent |-> 0, acks |-> 0, frames |-> 0]

----------------------------------------------------------------------------
(* Sequence helpers *)

Min(a, b) == IF a < b THEN a ELSE b

\* Python s.startswith(pre)
StartsWith(s, pre) == Len(pre) <= Len(s) /\ SubSeq(s, 1, Len(pre)) = pre

\* Python s.endswith(suf)
EndsWith(s, suf) ==
    Len(suf) <= Len(s) /\ SubSeq(s, Len(s) - Len(suf) + 1, Len(s)) = suf

\* Python text[i:] with a 0-based offset
From(text, i) == SubSeq(text, i + 1, Len(text))

\* Python text.find(s, i): least 0-based offset j >= i where s occurs, else -1
Find(text, s, i) ==
    LET hits == {j \in i..(Len(text) - Len(s)) : SubSeq(text, j + 1, j + Len(s)) = s}
    IN  IF hits = {} THEN -1 ELSE CHOOSE j \in hits : \A k \in hits : j <= k

----------------------------------------------------------------------------
(* The prompt sentinel and the decoding of a chunk *)

SENTINEL == <<"<","<","<","O","C","_","A","W","A","I","T",">",">",">">>

\* reader.read(1024)
READ_MAX == 1024

\* The two bytes of one two-byte UTF-8 character and the character itself.
LEAD == "0xC3"
CONT == "0xA9"
EACUTE == "e-acute"

\* bytes.decode(errors="ignore") with the default utf-8 codec: an ASCII byte is
\* itself, LEAD followed by CONT is one character, a LEAD with no CONT after it
\* in this chunk and a CONT with no LEAD before it are dropped.
RECURSIVE Decode(_)
Decode(bytes) ==
    IF bytes = <<>> THEN <<>>
    ELSE IF Head(bytes) = LEAD
         THEN IF Len(bytes) >= 2 /\ bytes[2] = CONT
              THEN <<EACUTE>> \o Decode(Tail(Tail(bytes)))
              ELSE Decode(Tail(bytes))
         ELSE IF Head(bytes) = CONT
              THEN Decode(Tail(bytes))
              ELSE <<Head(bytes)>> \o Decode(Tail(bytes))

\* str.encode(): the inverse on text
RECURSIVE Encode(_)
Encode(text) ==
    IF text = <<>> THEN <<>>
    ELSE (IF Head(text) = EACUTE THEN <<LEAD, CONT>> ELSE <<Head(text)>>)
         \o Encode(Tail(text))

----------------------------------------------------------------------------
(* Frames the server sends.  `why` is bookkeeping of the model only: it     *)
(* records which line of the pump produced an awaiting_input frame.         *)

Frame(kind, data) == [type |-> kind, data |-> data, value |-> FALSE, why |-> ""]
AwaitFrame(v, w)  == [type |-> "awaiting_input", data |-> <<>>, value |-> v, why |-> w]

----------------------------------------------------------------------------
(* pump_async, stdout branch: one iteration of the outer loop on            *)
(* text = carry + chunk.decode(errors="ignore")                             *)

\* the `for k in range(max_tail, 0, -1)` search: the longest suffix of text,
\* no longer than max_tail, that is a prefix of the sentinel (0 if none)
TailLen(text, i) ==
    LET max_tail == Min(Len(SENTINEL) - 1, Len(text) - i)
        ks == {k \in 1..max_tail : EndsWith(text, SubSeq(SENTINEL, 1, k))}
    IN  IF ks = {} THEN 0 ELSE CHOOSE k \in ks : \A m \in ks : m <= k

\* the heuristic prompt frame after an out frame whose data has no trailing newline
Heuristic(part) ==
    IF part # <<>> /\ part[Len(part)] # "\n"
    THEN <<AwaitFrame(TRUE, "heuristic")>> ELSE <<>>

\* the inner `while True` from offset i: the frames sent and the carry kept
RECURSIVE ScanText(_, _)
ScanText(text, i) ==
    LET j == Find(text, SENTINEL, i) IN
    IF j = -1
    THEN LET tail_len  == TailLen(text, i)
             emit_part == SubSeq(text, i + 1, Len(text) - tail_len)
         IN  [frames |-> IF emit_part # <<>>
                         THEN <<Frame("out", emit_part)>> \o Heuristic(emit_part)
                         ELSE <<>>,
              carry  |-> IF tail_len > 0
                         THEN SubSeq(text, Len(text) - tail_len + 1, Len(text))
                         ELSE <<>>]
    ELSE LET part == SubSeq(text, i + 1, j)
             rest == ScanText(text, j + Len(SENTINEL))
         IN  [frames |-> (IF j > i THEN <<Frame("out", part)>> \o Heuristic(part)
                                   ELSE <<>>)
                         \o <<AwaitFrame(TRUE, "sentinel")>> \o rest.frames,
              carry  |-> rest.carry]

\* one chunk read from stdout
PumpChunk(carry, chunk) == ScanText(carry \o Decode(chunk), 0)

\* reader.read returned b"": flush the carry and stop
PumpEof(carry) == IF carry # <<>> THEN <<Frame("out", carry)>> ELSE <<>>

\* the data of the out frames among fs, concatenated
RECURSIVE OutData(_)
OutData(fs) ==
    IF fs = <<>> THEN <<>>
    ELSE (IF Head(fs).type = "out" THEN Head(fs).data ELSE <<>>) \o OutData(Tail(fs))

RECURSIVE CountWhy(_, _)
CountWhy(fs, w) ==
    IF fs = <<>> THEN 0
    ELSE (IF Head(fs).type = "awaiting_input" /\ Head(fs).why = w THEN 1 ELSE 0)
         + CountWhy(Tail(fs), w)

----------------------------------------------------------------------------
(* SpecPump: the stdout pump of one run session read to EOF, the stream     *)
(* cut into chunks in every possible way.                                   *)

\* number of pieces a modelled stream is put together from
MaxPieces == 3

Pieces ==
    { SENTINEL,
      <<"<","<","<","O","C","_">>,
      <<"A","W","A","I","T",">",">",">">>,
      <<LEAD, CONT>>,
      <<"?"," ">>,
      <<"h","i","\n">>,
      <<"<">> }

RECURSIVE StreamsOf(_)
StreamsOf(n) ==
    IF n = 0 THEN {<<>>}
    ELSE LET shorter == StreamsOf(n - 1)
         IN  shorter \cup {s \o p : s \in shorter, p \in Pieces}

\* chunk = await reader.read(1024) returned n >= 1 bytes
PumpRead ==
    /\ p_pc = "read"
    /\ p_pos < Len(p_stream)
    /\ \E n \in 1..Min(READ_MAX, Len(p_stream) - p_pos) :
         LET chunk == SubSeq(p_stream, p_pos + 1, p_pos + n)
             r == PumpChunk(p_carry, chunk)
         IN  /\ p_pos' = p_pos + n
             /\ p_carry' = r.carry
             /\ p_last' = r.frames
             /\ p_out' = p_out \o OutData(r.frames)
             /\ p_nsent' = p_nsent + CountWhy(r.frames, "sentinel")
    /\ UNCHANGED <<p_stream, p_pc>>
    /\ UNCHANGED nonPumpVars

\* chunk = b"" : EOF
PumpAtEof ==
    /\ p_pc = "read"
    /\ p_pos = Len(p_stream)
    /\ p_last' = PumpEof(p_carry)
    /\ p_out' = p_out \o OutData(PumpEof(p_carry))
    /\ p_pc' = "done"
    /\ UNCHANGED <<p_stream, p_pos, p_carry, p_nsent>>
    /\ UNCHANGED nonPumpVars

----------------------------------------------------------------------------
(* Session create: POST /run (run_routes.py)                                *)

\* [A-Za-z0-9._-]
SafeChars ==
    {"A","B","C","D","E","F","G","H","I","J","K","L","M","N","O","P","Q","R","S",
     "T","U","V","W","X","Y","Z","a","b","c","d","e","f","g","h","i","j","k","l",
     "m","n","o","p","q","r","s","t","u","v","w","x","y","z","0","1","2","3","4",
     "5","6","7","8","9",".","_","-"}

\* the {1,128} of SAFE_NAME
NAME_MAX == 128

\* bool(SAFE_NAME.match(name)) for re.compile(r"^[A-Za-z0-9._-]{1,128}$"):
\* Python's `$` matches at the end of the string and also just before a newline
\* that ends the string.
is_safe_name(name) ==
    LET n == Len(name)
        body == IF n > 0 /\ name[n] = "\n" THEN SubSeq(name, 1, n - 1) ELSE name
    IN  /\ Len(body) >= 1
        /\ Len(body) <= NAME_MAX
        /\ \A k \in 1..Len(body) : body[k] \in SafeChars

ALLOWED_LANGS == {"python", "javascript", "java", "cpp", "go"}
ALLOWED_MODES == {"run", "debug"}
MAX_FILES == 50
MAX_BYTES_PER_FILE == 200000

\* (x or "").strip().lower() on the strings the model uses
StripLower(x) ==
    CASE x = " Python " -> "python"
      [] x = "DEBUG"    -> "debug"
      [] OTHER          -> x

\* (req.mode or "run").strip().lower()
ModeOf(r) == IF r.mode = "" THEN "run" ELSE StripLower(r.mode)
\* (req.lang or "").strip().lower()
LangOf(r) == StripLower(r.lang)

NamesOf(files) == {files[k].name : k \in 1..Len(files)}

\* _validate_request: "ok", or the detail of the HTTPException(400) it raises.
\* A file is [name, bytes], bytes being len(content.encode("utf-8", "ignore")).
validate_request(r) ==
    IF ModeOf(r) \notin ALLOWED_MODES THEN "unsupported mode"
    ELSE IF LangOf(r) \notin ALLOWED_LANGS THEN "unsupported language"
    ELSE IF \E k \in 1..Len(r.files) : ~is_safe_name(r.files[k].name)
         THEN "invalid filename"
    ELSE IF ~is_safe_name(r.entry) THEN "invalid entry"
    ELSE IF r.entry \notin NamesOf(r.files) THEN "entry file not found"
    ELSE IF Len(r.files) > MAX_FILES THEN "too many files"
    ELSE IF \E k \in 1..Len(r.files) : r.files[k].bytes > MAX_BYTES_PER_FILE
         THEN "file too large"
    ELSE IF \E k \in 1..Len(r.breakpoints) :
              /\ \A m \in 1..(k - 1) : /\ is_safe_name(r.breakpoints[m].file)
                                       /\ r.breakpoints[m].line > 0
              /\ ~is_safe_name(r.breakpoints[k].file)
         THEN "invalid breakpoint file"
    ELSE IF \E k \in 1..Len(r.breakpoints) : r.breakpoints[k].line <= 0
         THEN "invalid breakpoint line"
    ELSE "ok"

\* What a child writes, in order: each item goes to one of its two pipes.
\* A run child writes bytes; a debug child (the JSON-lines shims, dlv) writes
\* lines, one element per line.
Out(data) == [fd |-> "out", data |-> data]
Err(data) == [fd |-> "err", data |-> data]

\* x = input("? ") under the bootstrap of _start_process: the prompt, a flush,
\* the sentinel, a flush; a diagnostic on stderr
RunScript == << Out(<<"?"," ">>), Out(SENTINEL), Err(<<"E","\n">>) >>

\* the lines of a debugger: output of the program that does not end in a
\* newline, the program waiting for input, a diagnostic, the end of the
\* program
DebugScript ==
    << Out(<<"output">>), Out(<<"await_input">>), Err(<<"E">>),
       Out(<<"terminated">>) >>

\* signal numbers, and the value that stands for `returncode is None`
SIGKILL == 9
SIGTERM == 15
RC_NONE == 0 - 1000

\* the return code asyncio reports for a child ended by a signal
RcOf(sig) == IF sig = "kill" THEN 0 - SIGKILL ELSE 0 - SIGTERM

\* a freshly spawned child: asyncio.create_subprocess_exec(..., stdin=PIPE,
\* stdout=PIPE, stderr=PIPE).
\*   alive   returncode is None       signal  the last signal sent to it
\*   stdin   "open" | "closed" (the transport reports is_closing())
\*   script  what it has yet to write pipe    written and not yet read
\*   users   the attachments that read from it, wrote to it or signalled it
\*   rc      proc.returncode once it has ended (RC_NONE before)
NewProc(script) ==
    [alive |-> TRUE, signal |-> "none", stdin |-> "open", script |-> script,
     pipe |-> [out |-> <<>>, err |-> <<>>], users |-> {}, rc |-> RC_NONE]

\* the source suffix each compiled debug backend insists on
SourceSuffix(lang) ==
    CASE lang = "cpp"  -> <<".","c","p","p">>
      [] lang = "java" -> <<".","j","a","v","a">>
      [] lang = "go"   -> <<".","g","o">>
      [] OTHER         -> <<>>

\* What the environment can make of a debug launch.
PrepOutcomes == {"ok", "no_docker", "build_failed", "spawn_failed", "exited_early"}

\* _prepare_<lang>_debug_session and the checks create_run makes after it:
\* [status, detail, made (mkdtemp was called), kept (the workdir is still on
\* disk when create_run returns), ready (the session is registered)].
PrepareDebug(lang, files, prep) ==
    LET fail(st, d, made, kept) ==
            [status |-> st, detail |-> d, made |-> made, kept |-> kept, ready |-> FALSE]
        has_src == \E k \in 1..Len(files) : EndsWith(files[k].name, SourceSuffix(lang))
        compiled == lang \in {"cpp", "java", "go"}
    IN  IF prep = "no_docker" THEN fail(500, "docker required", FALSE, FALSE)
        ELSE IF compiled /\ ~has_src THEN fail(400, "no source files", TRUE, FALSE)
        ELSE IF compiled /\ prep = "build_failed"
             THEN fail(400, "build failed", TRUE, FALSE)
        ELSE IF prep = "spawn_failed" THEN fail(500, "spawn failed", TRUE, FALSE)
        \* cpp: create_run itself waits 1 s for gdb and raises, after
        \* _prepare_cpp_debug_session has returned the workdir
        ELSE IF lang = "cpp" /\ prep = "exited_early"
             THEN fail(500, "gdb failed to start", TRUE, TRUE)
        \* javascript, go: the same wait is inside _prepare_*, whose except
        \* removes the workdir
        ELSE IF lang \in {"javascript", "go"} /\ prep = "exited_early"
             THEN fail(500, "debugger exited", TRUE, FALSE)
        ELSE [status |-> 200, detail |-> "ok", made |-> TRUE, kept |-> TRUE,
              ready |-> TRUE]

\* the record create_run stores
SessionOf(r, workdir, proc) ==
    [lang        |-> LangOf(r),
     entry       |-> r.entry,
     files       |-> r.files,
     mode        |-> ModeOf(r),
     breakpoints |-> r.breakpoints,
     state       |-> IF proc = 0 THEN "new" ELSE "debug-ready",
     workdir     |-> workdir,
     proc        |-> proc]

NoReq == [lang |-> "", mode |-> "", entry |-> <<>>, files |-> <<>>, breakpoints |-> <<>>]
NoResp == [status |-> 0, detail |-> ""]

RegistryInit ==
    /\ SESSIONS = <<>>
    /\ disk = {}
    /\ wdMade = 0
    /\ procs = <<>>
    /\ posts = 0
    /\ req = NoReq
    /\ resp = NoResp
    /\ att = <<>>
    /\ launched = <<>>
    /\ mirror = MirrorIdle
    /\ pyio = PyIoIdle
    /\ talk = TalkIdle
    /\ adapter = AdapterIdle
    /\ DebugIdle

\* create_run(request, body): session ids are fresh (uuid4), modelled as the
\* next index of the registry; 0 stands for an absent workdir / proc.
create_run(r, prep) ==
    LET v == validate_request(r)
        d == PrepareDebug(LangOf(r), r.files, prep)
        wd == wdMade + 1
        pid == Len(procs) + 1
    IN  /\ req' = r
        /\ posts' = posts + 1
        /\ IF v # "ok"
           THEN /\ resp' = [status |-> 400, detail |-> v]
                /\ UNCHANGED <<SESSIONS, disk, wdMade, procs>>
           ELSE IF ModeOf(r) = "debug"
           THEN /\ resp' = [status |-> d.status, detail |-> d.detail]
                /\ wdMade' = IF d.made THEN wd ELSE wdMade
                /\ disk' = IF d.kept THEN disk \cup {wd} ELSE disk
                /\ procs' = IF d.ready THEN Append(procs, NewProc(DebugScript)) ELSE procs
                /\ SESSIONS' = IF d.ready
                               THEN Append(SESSIONS, SessionOf(r, wd, pid))
                               ELSE SESSIONS
           ELSE /\ resp' = [status |-> 200, detail |-> "ok"]
                /\ SESSIONS' = Append(SESSIONS, SessionOf(r, 0, 0))
                /\ UNCHANGED <<disk, wdMade, procs>>

----------------------------------------------------------------------------
(* SpecCreate: any sequence of POST /run requests                           *)

\* POST /run requests in one behaviour of SpecCreate
MaxPosts == 2

Rep(x, n) == [k \in 1..n |-> x]

N_py   == <<"m",".","p","y">>
N_cpp  == <<"m",".","c","p","p">>
N_nl   == <<"m",".","p","y","\n">>
N_up   == <<".",".","/","x">>
N_long == Rep("a", NAME_MAX + 1)

File(name, bytes) == [name |-> name, bytes |-> bytes]
Bp(file, line) == [file |-> file, line |-> line]

\* well-formed requests, and each of them changed in one respect
BaseRequests ==
    { [lang |-> l, mode |-> m, entry |-> e, files |-> <<File(e, 10)>>,
       breakpoints |-> <<>>] :
        l \in {"python", "cpp"}, m \in {"run", "debug"}, e \in {N_py, N_cpp} }

CRequests ==
    BaseRequests
    \cup { [b EXCEPT !.lang = x] : b \in BaseRequests, x \in {"ruby", "", " Python "} }
    \cup { [b EXCEPT !.mode = x] : b \in BaseRequests, x \in {"trace", "", "DEBUG"} }
    \cup { [b EXCEPT !.entry = x] : b \in BaseRequests, x \in {N_up, N_nl, N_long, <<>>} }
    \cup UNION { { [b EXCEPT !.files = x] :
                     x \in { <<>>, <<File(N_up, 10), File(b.entry, 10)>>,
                             <<File(b.entry, 10), File(N_nl, 10)>>,
                             <<File(b.entry, 10), File(N_long, 10)>>,
                             <<File(b.entry, MAX_BYTES_PER_FILE)>>,
                             <<File(b.entry, MAX_BYTES_PER_FILE + 1)>>,
                             <<File(b.entry, 200 * 1024)>>,
                             <<File(b.entry, 200 * 1024 + 1)>>,
                             Rep(File(b.entry, 10), MAX_FILES),
                             Rep(File(b.entry, 10), MAX_FILES + 1) } } :
                 b \in BaseRequests }
    \cup { [b EXCEPT !.entry = N_nl, !.files = <<File(N_nl, 10)>>] : b \in BaseRequests }
    \cup UNION { { [b EXCEPT !.breakpoints = x] :
                     x \in { <<Bp(b.entry, 1)>>, <<Bp(b.entry, 0)>>, <<Bp(b.entry, -3)>>,
                             <<Bp(N_up, 1)>>, <<Bp(N_nl, 2)>>,
                             <<Bp(b.entry, 4), Bp(b.entry, 0)>> } } :
                 b \in BaseRequests }

\* the launch outcomes that matter to a request: only a valid debug request
\* reaches a _prepare_*_debug_session
PrepFor(r) ==
    IF validate_request(r) = "ok" /\ ModeOf(r) = "debug" THEN PrepOutcomes ELSE {"ok"}

CreateInit ==
    /\ RegistryInit
    /\ p_stream = <<>> /\ p_pos = 0 /\ p_carry = <<>> /\ p_last = <<>>
    /\ p_out = <<>> /\ p_nsent = 0 /\ p_pc = "done"

Create ==
    /\ posts < MaxPosts
    /\ \E r \in CRequests : \E prep \in PrepFor(r) : create_run(r, prep)
    /\ UNCHANGED <<pumpVars, att, dbgVars, launched, mirror, adapter, pyio, talk>>

SpecCreate == CreateInit /\ [][Create]_vars

----------------------------------------------------------------------------
(* SpecPump *)

\* carry = "" before the first read, of any stream; no session exists
PumpInit ==
    /\ p_stream \in StreamsOf(MaxPieces)
    /\ p_pos = 0
    /\ p_carry = <<>>
    /\ p_last = <<>>
    /\ p_out = <<>>
    /\ p_nsent = 0
    /\ p_pc = "read"
    /\ SESSIONS = <<>> /\ disk = {} /\ wdMade = 0 /\ procs = <<>>
    /\ posts = 0 /\ req = NoReq /\ resp = NoResp /\ att = <<>>
    /\ launched = <<>>
    /\ mirror = MirrorIdle
    /\ pyio = PyIoIdle
    /\ talk = TalkIdle
    /\ adapter = AdapterIdle
    /\ DebugIdle

PumpNext == PumpRead \/ PumpAtEof

SpecPump == PumpInit /\ [][PumpNext]_vars

----------------------------------------------------------------------------
(* The /ws/run/{sid} supervisor (ws_routes.py).  An attachment is one call  *)
(* of ws_run; `wire` is the sequence of frames its client has received,     *)
(* each frame reduced to a tag.                                             *)

\* sessions created, attachments made and client frames per attachment in
\* one behaviour of Spec
MaxCreates == 1
MaxAttach == 1
MaxFrames == 2

\* attachments made in one behaviour of SpecShare
MaxShare == 2

\* ws_run's dispatch: the debug handler of the language, else the run path.
\* _handle_js_debug and _handle_java_debug are _handle_cpp_debug line by line.
HandlerOf(sess) ==
    IF sess.mode = "debug"
    THEN (IF sess.lang \in {"javascript", "java"} THEN "cpp" ELSE sess.lang)
    ELSE "run"

\* the state of an attachment right after ws.accept()
NewAtt(sid, after) ==
    [sid |-> sid, handler |-> "none", pc |-> "accepted",
     client |-> "connected",      \* "connected" | "gone"
     ws |-> "open",               \* "open" | "closed": ws.close() was sent
     proc |-> 0, workdir |-> 0,
     out_task |-> "none", err_task |-> "none", t_wd |-> "none",
     carry |-> <<>>, exit_event |-> FALSE,
     wire |-> <<>>,
     frames |-> 0,                \* client frames received so far
     writes |-> 0,                \* `in` frames whose data was written to stdin
     bps |-> 0,                   \* length of a debug handler's breakpoint list
     afterClose |-> after,        \* an attachment to this id had closed before
     code |-> RC_NONE,            \* rc of the finally, the code of the exit frame
     stop_at |-> 0,               \* where on the wire status stopping stands
     raised |-> FALSE]            \* the handler ended by an exception

\* ws.send_json where the failure is swallowed, or cannot happen: the frame
\* reaches the client if the stream is open at both ends
Send(a, tag) ==
    IF a.ws = "open" /\ a.client = "connected"
    THEN [a EXCEPT !.wire = Append(@, tag)] ELSE a

RECURSIVE SendAll(_, _)
SendAll(a, tags) ==
    IF tags = <<>> THEN a ELSE SendAll(Send(a, Head(tags)), Tail(tags))

\* the tag of a frame of the run pump
Tag(f) ==
    IF f.type = "awaiting_input"
    THEN (IF f.value THEN "await_true" ELSE "await_false")
    ELSE f.type

Tags(fs) == [k \in 1..Len(fs) |-> Tag(fs[k])]

\* `return await ws.close()` of the early exits
Close(a) == [a EXCEPT !.ws = "closed", !.pc = "done"]

\* proc.stdin.write(...) + drain(): the write reaches the child while its
\* stdin is open; once the child has closed it the transport either reports
\* is_closing() already or the write raises
WriteOutcomes(P, pid) ==
    IF P[pid].stdin = "open" THEN {"written"} ELSE {"closing", "raised"}

StdinWrite(P, pid, i) ==
    [P EXCEPT ![pid].users = @ \cup {i}]

\* proc.terminate() / proc.kill() under `if proc.returncode is None`; a
\* SIGKILL that was sent is not taken back by a later SIGTERM
Signal(P, pid, i, sig) ==
    IF P[pid].alive
    THEN [P EXCEPT ![pid].signal = IF @ = "kill" THEN @ ELSE sig,
                   ![pid].users = @ \cup {i}]
    ELSE P

\* the tasks left running: what the exit frame would be followed by
CancelPumps_none(a) == a

\* for t in (...): t.cancel() -- a cancelled task gets CancelledError at its
\* await, which no `except Exception` of the pumps catches
CancelPumps(a) ==
    [a EXCEPT !.out_task = IF @ = "running" THEN "cancelled" ELSE @,
              !.err_task = IF @ = "running" THEN "cancelled" ELSE @,
              !.t_wd     = IF @ = "armed" THEN "cancelled" ELSE @]

\* A debug handler up to its supervision loop: the two early exits, then
\* status starting, the pump tasks, the initial breakpoints (dlv is also told
\* to continue) and status running.
debug_attach(i, a0, sess) ==
    LET pid == sess.proc
        wd  == sess.workdir
        a1  == [a0 EXCEPT !.handler = HandlerOf(sess), !.proc = pid, !.workdir = wd,
                          !.bps = Len(sess.breakpoints)]
        a2  == [Send(a1, "status") EXCEPT !.out_task = "running",
                                          !.err_task = "running", !.pc = "loop"]
        cmd == sess.breakpoints # <<>> \/ a1.handler = "go"
    IN  IF pid = 0 \/ wd = 0
        THEN /\ att' = Append(att, Close(Send(a1, "err:missing process/workdir")))
             /\ UNCHANGED <<SESSIONS, disk, wdMade, procs>>
        ELSE IF ~procs[pid].alive
        THEN /\ att' = Append(att, Close(Send(a1, "err:already ended")))
             /\ disk' = disk \ {wd}
             /\ UNCHANGED <<SESSIONS, wdMade, procs>>
        ELSE /\ IF ~cmd
                THEN /\ att' = Append(att, Send(a2, "status"))
                     /\ procs' = procs
                ELSE IF procs[pid].stdin = "open"
                THEN /\ att' = Append(att, Send(a2, "status"))
                     /\ procs' = StdinWrite(procs, pid, i)
                ELSE /\ att' = Append(att, Send(Send(a2, "err:msg"), "status"))
                     /\ procs' = procs
             /\ UNCHANGED <<SESSIONS, disk, wdMade>>

\* The run path up to the spawn: status starting, mkdtemp, _write_files,
\* _start_process (started = FALSE: it raised), status exec.
run_attach(i, a0, sess, started) ==
    LET wd  == wdMade + 1
        pid == Len(procs) + 1
        a1  == Send([a0 EXCEPT !.handler = "run"], "status")
    IN  /\ wdMade' = wd
        /\ SESSIONS' = SESSIONS
        /\ IF started
           THEN /\ att' = Append(att, [Send(a1, "status") EXCEPT
                                         !.proc = pid, !.workdir = wd, !.pc = "start"])
                /\ procs' = Append(procs, NewProc(RunScript))
                /\ disk' = disk \cup {wd}
           ELSE /\ att' = Append(att, Close(Send(a1, "err:msg")))
                /\ UNCHANGED <<procs, disk>>

\* ws_run from ws.accept() to the first point where the handler waits
Attach(sid, started) ==
    /\ LET i  == Len(att) + 1
           a0 == NewAtt(sid, \E b \in 1..Len(att) :
                                att[b].sid = sid /\ att[b].pc = "done")
       IN  IF sid \notin 1..Len(SESSIONS)
           THEN /\ att' = Append(att, Close(Send(a0, "err:invalid session_id")))
                /\ UNCHANGED <<SESSIONS, disk, wdMade, procs>>
           ELSE IF SESSIONS[sid].mode = "debug"
           THEN debug_attach(i, a0, SESSIONS[sid])
           ELSE run_attach(i, a0, SESSIONS[sid], started)
    /\ UNCHANGED <<posts, req, resp, pumpVars, dbgVars, launched, mirror, adapter, pyio, talk>>

\* ws_run line 2242, outside every try: status running, then the pump tasks
\* and the watchdog.  With the client gone the send may raise, and then
\* nothing below it runs.
Running(i) ==
    /\ att[i].pc = "start"
    /\ \E raises \in IF att[i].client = "gone" THEN BOOLEAN ELSE {FALSE} :
         att' = [att EXCEPT ![i] =
                   IF raises
                   THEN [@ EXCEPT !.pc = "done", !.raised = TRUE]
                   ELSE [Send(@, "status") EXCEPT
                           !.out_task = "running", !.err_task = "running",
                           !.t_wd = "armed", !.pc = "loop"]]
    /\ UNCHANGED <<createVars, pumpVars, dbgVars, launched, mirror, adapter, pyio, talk>>

\* the client goes away (closes the page, loses the network)
ClientDisconnect(i) ==
    /\ att[i].pc # "done"
    /\ att[i].client = "connected"
    /\ att' = [att EXCEPT ![i].client = "gone"]
    /\ UNCHANGED <<createVars, pumpVars, dbgVars, launched, mirror, adapter, pyio, talk>>

\* what the supervision loop races ws.receive_text() against: proc.wait()
\* on the run path, exit_event.wait() in the debug handlers
ExitSeen(a) ==
    IF a.handler = "run" THEN ~procs[a.proc].alive ELSE a.exit_event

\* The `finally:` is entered; a debug handler first terminates a live child.
EnterFinally(i, a) ==
    /\ att' = [att EXCEPT ![i] = [a EXCEPT !.pc = "fin_wait"]]
    /\ procs' = IF a.handler = "run" THEN procs
                ELSE Signal(procs, a.proc, i, "term")

\* the text frames a client may send, by what the handlers make of them
RunMsgs == {"in", "in_empty", "stop", "bad_json", "non_object", "unknown"}
DebugMsgs == {"debug_continue", "debug_add_breakpoint", "debug_stop",
              "debug_unknown", "stdin", "bad_json", "non_object", "unknown"}

\* the answer to a frame the handler cannot make sense of: one err frame
err_reply_none(a) == a

err_reply(a) == Send(a, "err:msg")

\* the frame just sent was status stopping: note where the first one stands
Stopping(a) ==
    IF a.stop_at = 0 /\ a.wire # <<>> /\ a.wire[Len(a.wire)] = "status"
    THEN [a EXCEPT !.stop_at = Len(a.wire)] ELSE a

\* ws_run, one frame in the loop (lines 2336-2372)
run_recv(i, a, m, o) ==
    LET pid == a.proc
        stay(b, P) == att' = [att EXCEPT ![i] = b] /\ procs' = P
    IN  CASE m = "bad_json" -> stay(err_reply(a), procs)
          [] m = "unknown"  -> stay(err_reply(a), procs)
          [] m = "in_empty" -> stay(a, procs)
          [] m = "in" ->
               (CASE o = "written" ->
                       stay(Send([a EXCEPT !.writes = @ + 1], "await_false"),
                            StdinWrite(procs, pid, i))
                  [] o = "closing" -> stay(Send(a, "await_false"), procs)
                  [] o = "raised"  -> stay(a, procs))
          [] m = "stop" ->
               stay(Stopping(Send(a, "status")), Signal(procs, pid, i, "term"))
          \* msg.get on a JSON value that is no object: AttributeError leaves
          \* the loop through the finally, the child untouched
          [] m = "non_object" -> EnterFinally(i, a)

\* a debug handler, one frame in the loop; send_cmd raises unless stdin is open
debug_recv(i, a, m, o) ==
    LET pid == a.proc
        ok == o = "written"
        wrote == StdinWrite(procs, pid, i)
        stay(b, P) == att' = [att EXCEPT ![i] = b] /\ procs' = P
        \* add_breakpoint: a breakpoint the list does not hold is appended
        \* before the sync
        added == [a EXCEPT !.bps = @ + 1]
    IN  CASE m = "bad_json"      -> stay(err_reply(a), procs)
          [] m = "unknown"       -> stay(err_reply(a), procs)
          [] m = "debug_unknown" -> stay(err_reply(a), procs)
          [] m = "non_object"    -> EnterFinally(i, a)
          [] m = "debug_continue" ->
               IF ok THEN stay(a, wrote) ELSE stay(Send(a, "err:msg"), procs)
          [] m = "debug_add_breakpoint" ->
               IF ok THEN stay(Send(added, "debug_event"), wrote)
                     ELSE stay(Send(added, "err:msg"), procs)
          [] m = "debug_stop" ->
               IF ok
               THEN /\ att' = [att EXCEPT ![i] =
                                 [a EXCEPT !.exit_event = TRUE, !.pc = "fin_wait"]]
                    /\ procs' = Signal(wrote, pid, i, "term")
               ELSE stay(Send(a, "err:msg"), procs)
          [] m = "stdin" ->
               (CASE a.handler = "go" -> stay(a, procs)
                  [] a.handler = "python" ->
                       IF ok THEN stay(Send(a, "await_false"), wrote)
                             ELSE stay(Send(a, "err:msg"), procs)
                  [] OTHER ->
                       IF ok THEN stay(Send(a, "await_false"), wrote)
                             ELSE stay(a, procs))

\* raw = await recv_task returned a text frame
Receive(i, m) ==
    /\ att[i].pc = "loop"
    /\ att[i].client = "connected"
    /\ ~ExitSeen(att[i])
    /\ LET a == [att[i] EXCEPT !.frames = @ + 1] IN
       \E o \in WriteOutcomes(procs, a.proc) :
          IF a.handler = "run"
          THEN m \in RunMsgs /\ run_recv(i, a, m, o)
          ELSE m \in DebugMsgs /\ debug_recv(i, a, m, o)
    /\ UNCHANGED <<SESSIONS, disk, wdMade, posts, req, resp, pumpVars, dbgVars, launched, mirror, adapter, pyio, talk>>

\* raw = await recv_task raised WebSocketDisconnect: ws_run kills the child
\* and breaks, a debug handler breaks
RecvDisconnect(i) ==
    /\ att[i].pc = "loop"
    /\ att[i].client = "gone"
    /\ ~ExitSeen(att[i])
    /\ IF att[i].handler = "run"
       THEN /\ att' = [att EXCEPT ![i].pc = "fin_wait"]
            /\ procs' = Signal(procs, att[i].proc, i, "kill")
       ELSE EnterFinally(i, att[i])
    /\ UNCHANGED <<SESSIONS, disk, wdMade, posts, req, resp, pumpVars, dbgVars, launched, mirror, adapter, pyio, talk>>

\* `if proc_wait in done` / `if exit_task in done`: break
LoopExit(i) ==
    /\ att[i].pc = "loop"
    /\ ExitSeen(att[i])
    /\ EnterFinally(i, att[i])
    /\ UNCHANGED <<SESSIONS, disk, wdMade, posts, req, resp, pumpVars, dbgVars, launched, mirror, adapter, pyio, talk>>

Task(a, fd) == IF fd = "out" THEN a.out_task ELSE a.err_task

SetTask(a, fd, st) ==
    IF fd = "out" THEN [a EXCEPT !.out_task = st] ELSE [a EXCEPT !.err_task = st]

\* pump_stdout of a debug handler on one line.  _handle_python_debug has no
\* branch for await_input and output and forwards the raw line; dlv's pump
\* reads command_future, a local it assigns further down, and so raises
\* UnboundLocalError on its first non-empty line.
debug_line(a, line) ==
    CASE a.handler = "go" ->
           [a EXCEPT !.exit_event = TRUE, !.out_task = "done"]
      [] line = "stopped" -> Send(a, "debug_event")
      [] line = "terminated" ->
           [Send(a, "status") EXCEPT !.exit_event = TRUE, !.out_task = "done"]
      [] line = "await_input" ->
           IF a.handler = "python" THEN Send(a, "out") ELSE Send(a, "await_true")
      [] line = "output" ->
           IF a.handler = "python" THEN Send(a, "out")
           ELSE Send(Send(a, "out"), "await_true")
      [] OTHER -> Send(a, "out")

\* a pump got data: reader.read(1024) of the run pumps takes what is there,
\* readline() of the debug pumps one line
pump_data(a, fd, pipe) ==
    IF a.handler = "run"
    THEN LET n == Min(READ_MAX, Len(pipe))
             chunk == SubSeq(pipe, 1, n)
             r == PumpChunk(a.carry, chunk)
         IN  [rest |-> SubSeq(pipe, n + 1, Len(pipe)),
              a |-> IF fd = "out"
                    THEN [SendAll(a, Tags(r.frames)) EXCEPT !.carry = r.carry]
                    ELSE IF Decode(chunk) # <<>> THEN Send(a, "err") ELSE a]
    ELSE [rest |-> Tail(pipe),
          a |-> IF fd = "out" THEN debug_line(a, Head(pipe)) ELSE Send(a, "err")]

\* a pump task reads from its pipe
PumpData(i, fd) ==
    /\ att[i].pc # "done"
    /\ Task(att[i], fd) = "running"
    /\ LET pid == att[i].proc
           r == pump_data(att[i], fd, procs[pid].pipe[fd])
       IN  /\ procs[pid].pipe[fd] # <<>>
           /\ att' = [att EXCEPT ![i] = r.a]
           /\ procs' = [procs EXCEPT ![pid].pipe[fd] = r.rest,
                                     ![pid].users = @ \cup {i}]
    /\ UNCHANGED <<SESSIONS, disk, wdMade, posts, req, resp, pumpVars, dbgVars, launched, mirror, adapter, pyio, talk>>

\* Nothing to read, and the pump of another attachment reads the same pipe:
\* the one that calls readline() while the other waits in it gets a
\* RuntimeError.  pump_stdout sets exit_event in its except, pump_stderr ends.
PumpClash(i, fd) ==
    /\ att[i].pc # "done"
    /\ Task(att[i], fd) = "running"
    /\ LET pid == att[i].proc IN
       /\ procs[pid].pipe[fd] = <<>>
       /\ procs[pid].alive
       /\ \E j \in 1..Len(att) :
             /\ j # i
             /\ att[j].proc = pid
             /\ att[j].pc # "done"
             /\ Task(att[j], fd) = "running"
    /\ att' = [att EXCEPT ![i] =
                 IF fd = "out" THEN [@ EXCEPT !.exit_event = TRUE, !.out_task = "done"]
                 ELSE [@ EXCEPT !.err_task = "done"]]
    /\ UNCHANGED <<createVars, pumpVars, dbgVars, launched, mirror, adapter, pyio, talk>>

\* the read returns b"": the run pump flushes its carry; pump_stdout of a
\* debug handler sets exit_event
PumpEnd(i, fd) ==
    /\ att[i].pc # "done"
    /\ Task(att[i], fd) = "running"
    /\ LET pid == att[i].proc
           a == SetTask(att[i], fd, "done")
       IN  /\ procs[pid].pipe[fd] = <<>>
           /\ ~procs[pid].alive
           /\ att' = [att EXCEPT ![i] =
                        IF fd = "err" THEN a
                        ELSE IF a.handler = "run"
                        THEN [SendAll(a, Tags(PumpEof(a.carry))) EXCEPT !.carry = <<>>]
                        ELSE [a EXCEPT !.exit_event = TRUE]]
    /\ UNCHANGED <<createVars, pumpVars, dbgVars, launched, mirror, adapter, pyio, talk>>

\* a watchdog that lets the child run on
wd_kill_none(P, pid, i) == P

\* `if proc.returncode is None: proc.kill()` of the watchdog
wd_kill(P, pid, i) == Signal(P, pid, i, "kill")

\* watchdog(): after WALL seconds, kill a child that still runs
watchdog(i) ==
    /\ att[i].t_wd = "armed"
    /\ att' = [att EXCEPT ![i].t_wd =
                 IF procs[att[i].proc].alive THEN "fired" ELSE "done"]
    /\ procs' = wd_kill(procs, att[i].proc, i)
    /\ UNCHANGED <<SESSIONS, disk, wdMade, posts, req, resp, pumpVars, dbgVars, launched, mirror, adapter, pyio, talk>>

\* the child writes the next item of its script to stdout or stderr
ChildWrite(pid) ==
    /\ procs[pid].alive
    /\ procs[pid].script # <<>>
    /\ LET it == Head(procs[pid].script) IN
       procs' = [procs EXCEPT ![pid].script = Tail(@),
                              ![pid].pipe[it.fd] = @ \o it.data]
    /\ UNCHANGED <<SESSIONS, disk, wdMade, posts, req, resp, att, pumpVars, dbgVars, launched, mirror, adapter, pyio, talk>>

\* the child closes its standard input and runs on
ChildCloseStdin(pid) ==
    /\ procs[pid].alive
    /\ procs[pid].stdin = "open"
    /\ procs' = [procs EXCEPT ![pid].stdin = "closed"]
    /\ UNCHANGED <<SESSIONS, disk, wdMade, posts, req, resp, att, pumpVars, dbgVars, launched, mirror, adapter, pyio, talk>>

\* how a child can end: SIGKILL ends it; SIGTERM ends it unless it handles
\* the signal and exits by itself; left alone it exits with its own code
ExitCodes(sig) ==
    CASE sig = "kill" -> {RcOf("kill")}
      [] sig = "term" -> {RcOf("term"), 0}
      [] OTHER        -> {0}

\* the child ends: by itself, or by the signal it was sent
ChildExit(pid) ==
    /\ procs[pid].alive
    /\ \E rc \in ExitCodes(procs[pid].signal) :
          procs' = [procs EXCEPT ![pid].alive = FALSE, ![pid].stdin = "closed",
                                 ![pid].rc = rc]
    /\ UNCHANGED <<SESSIONS, disk, wdMade, posts, req, resp, att, pumpVars, dbgVars, launched, mirror, adapter, pyio, talk>>

\* finally: rc = await proc.wait() has returned; the tasks are cancelled and
\* the exit frame is sent, failure swallowed
FinExit(i) ==
    /\ att[i].pc = "fin_wait"
    /\ ~procs[att[i].proc].alive
    /\ att' = [att EXCEPT ![i] =
                 [Send(CancelPumps(@), "exit") EXCEPT
                    !.pc = "fin_close", !.code = procs[att[i].proc].rc]]
    /\ UNCHANGED <<createVars, pumpVars, dbgVars, launched, mirror, adapter, pyio, talk>>

\* sess["proc"] = None; sess["state"] = "closed" of the debug handlers
CloseSession(S, a) ==
    IF a.handler = "run" THEN S
    ELSE [S EXCEPT ![a.sid].proc = 0, ![a.sid].state = "closed"]

\* finally: await ws.close(), then the session fields and shutil.rmtree.
\* ws.close() is outside every try except in _handle_go_debug: with the
\* client gone it may raise, and then nothing below it runs.  After its
\* finally _handle_go_debug runs on into the code that follows it.
FinClose(i) ==
    /\ att[i].pc = "fin_close"
    /\ LET a == att[i] IN
       \E raises \in IF a.client = "gone" /\ a.handler # "go"
                     THEN BOOLEAN ELSE {FALSE} :
          IF raises
          THEN /\ att' = [att EXCEPT ![i] = [a EXCEPT !.pc = "done", !.raised = TRUE]]
               /\ UNCHANGED <<SESSIONS, disk>>
          ELSE /\ att' = [att EXCEPT ![i] =
                            [a EXCEPT !.ws = "closed",
                                      !.pc = IF a.handler = "go" THEN "go_tail"
                                             ELSE "done"]]
               /\ SESSIONS' = CloseSession(SESSIONS, a)
               /\ disk' = disk \ {a.workdir}
    /\ UNCHANGED <<wdMade, procs, posts, req, resp, pumpVars, dbgVars, launched, mirror, adapter, pyio, talk>>

\* _handle_go_debug lines 1615-2168: a second and a third handler body on the
\* stream that is closed by now.  Every send raises; the guarded ones are
\* swallowed and the first unguarded call ends the handler.
go_tail(i) ==
    /\ att[i].pc = "go_tail"
    /\ att' = [att EXCEPT ![i] =
                 [Send(Send(@, "status"), "exit") EXCEPT !.pc = "done", !.raised = TRUE]]
    /\ UNCHANGED <<createVars, pumpVars, dbgVars, launched, mirror, adapter, pyio, talk>>

----------------------------------------------------------------------------
(* Spec: create, attach, supervise, clean up                                *)

N_go == <<"m",".","g","o">>

\* a run session, and a debug session for each kind of debug handler
MainRequests ==
    { [lang |-> "python", mode |-> "run", entry |-> N_py,
       files |-> <<File(N_py, 10)>>, breakpoints |-> <<>>],
      [lang |-> "python", mode |-> "debug", entry |-> N_py,
       files |-> <<File(N_py, 10)>>, breakpoints |-> <<Bp(N_py, 1)>>],
      [lang |-> "cpp", mode |-> "debug", entry |-> N_cpp,
       files |-> <<File(N_cpp, 10)>>, breakpoints |-> <<>>],
      [lang |-> "go", mode |-> "debug", entry |-> N_go,
       files |-> <<File(N_go, 10)>>, breakpoints |-> <<>>] }

Init ==
    /\ RegistryInit
    /\ p_stream = <<>> /\ p_pos = 0 /\ p_carry = <<>> /\ p_last = <<>>
    /\ p_out = <<>> /\ p_nsent = 0 /\ p_pc = "done"

CreateRun ==
    /\ posts < MaxCreates
    /\ \E r \in MainRequests : \E prep \in PrepFor(r) : create_run(r, prep)
    /\ UNCHANGED <<pumpVars, att, dbgVars, launched, mirror, adapter, pyio, talk>>

\* the steps of the children
Child ==
    \E pid \in 1..Len(procs) :
        ChildWrite(pid) \/ ChildCloseStdin(pid) \/ ChildExit(pid)

\* one client attaches, to a session id that exists or to one that does not
Next ==
    \/ CreateRun
    \/ /\ Len(att) < MaxAttach
       /\ \E sid \in 1..(Len(SESSIONS) + 1), started \in BOOLEAN : Attach(sid, started)
    \/ \E i \in 1..Len(att) :
          \/ Running(i)
          \/ ClientDisconnect(i)
          \/ att[i].frames < MaxFrames /\ \E m \in RunMsgs \cup DebugMsgs : Receive(i, m)
          \/ RecvDisconnect(i)
          \/ LoopExit(i)
          \/ \E fd \in {"out", "err"} : PumpData(i, fd) \/ PumpEnd(i, fd)
          \/ watchdog(i)
          \/ FinExit(i)
          \/ FinClose(i)
          \/ go_tail(i)
    \/ Child

Spec == Init /\ [][Next]_vars

----------------------------------------------------------------------------
(* SpecShare: clients that attach to one session id one after the other or  *)
(* at the same time.  They send nothing and stay connected; the children do *)
(* not close their stdin and no watchdog expires.                           *)

ShareNext ==
    \/ CreateRun
    \/ /\ Len(att) < MaxShare
       /\ \E sid \in 1..Len(SESSIONS) : Attach(sid, TRUE)
    \/ \E i \in 1..Len(att) :
          \/ Running(i)
          \/ LoopExit(i)
          \/ \E fd \in {"out", "err"} :
                PumpData(i, fd) \/ PumpClash(i, fd) \/ PumpEnd(i, fd)
          \/ FinExit(i)
          \/ FinClose(i)
          \/ go_tail(i)
    \/ \E pid \in 1..Len(procs) : ChildWrite(pid) \/ ChildExit(pid)

SpecShare == Init /\ [][ShareNext]_vars

----------------------------------------------------------------------------
(* Reference notions the pump claims are stated against *)

\* number of occurrences of the sentinel in a byte stream
Occurrences(bytes) ==
    Cardinality({j \in 0..(Len(bytes) - Len(SENTINEL)) :
                    SubSeq(bytes, j + 1, j + Len(SENTINEL)) = SENTINEL})

\* the byte stream with every sentinel occurrence removed
RECURSIVE Strip(_)
Strip(bytes) ==
    LET j == Find(bytes, SENTINEL, 0) IN
    IF j = -1 THEN bytes
    ELSE SubSeq(bytes, 1, j) \o Strip(From(bytes, j + Len(SENTINEL)))

\* C9: read to EOF, the pump has sent one awaiting_input=true for an explicit
\* sentinel per occurrence of the sentinel in the stdout byte stream, whatever
\* the chunk boundaries were.
C9_SentinelCount == p_pc = "done" => p_nsent = Occurrences(p_stream)

\* C10: read to EOF, the data of the out frames concatenated is the stdout
\* stream with the sentinel occurrences removed (nothing lost, duplicated or
\* reordered); no out frame holds a sentinel; the carry is a proper prefix of
\* the sentinel.
C10_OutputPreserved ==
    /\ p_pc = "done" => Encode(p_out) = Strip(p_stream)
    /\ \A k \in 1..Len(p_last) :
          p_last[k].type = "out" => Find(p_last[k].data, SENTINEL, 0) = -1
    /\ Len(p_carry) < Len(SENTINEL) /\ StartsWith(SENTINEL, p_carry)

----------------------------------------------------------------------------
(* Reference notions the create claims are stated against *)

\* a name of 1..128 characters, each of them a letter, a digit, '.', '_' or '-'
StrictSafe(name) ==
    /\ Len(name) >= 1
    /\ Len(name) <= NAME_MAX
    /\ \A k \in 1..Len(name) : name[k] \in SafeChars

\* the create policy, item by item
OutOfPolicy(r) ==
    \/ LangOf(r) \notin ALLOWED_LANGS
    \/ ModeOf(r) \notin ALLOWED_MODES
    \/ \E k \in 1..Len(r.files) : ~StrictSafe(r.files[k].name)
    \/ ~StrictSafe(r.entry)
    \/ r.entry \notin NamesOf(r.files)
    \/ Len(r.files) > MAX_FILES
    \/ \E k \in 1..Len(r.files) : r.files[k].bytes > MAX_BYTES_PER_FILE
    \/ \E k \in 1..Len(r.breakpoints) :
          ~StrictSafe(r.breakpoints[k].file) \/ r.breakpoints[k].line < 1

\* C5: a create request that is out of policy is answered with status 400 and
\* leaves the registry, the disk (no workdir made) and the process table
\* (no child spawned) as they were.
C5_RejectsOutOfPolicy ==
    [][ (posts' = posts + 1 /\ OutOfPolicy(req'))
          => /\ resp'.status = 400
             /\ UNCHANGED <<SESSIONS, disk, wdMade, procs>> ]_vars

\* C6: every session record of the registry has its entry among its files,
\* only safe file names, at most 50 files, mode run or debug, and breakpoint
\* lines >= 1.
C6_RecordsWellFormed ==
    \A sid \in 1..Len(SESSIONS) :
        LET s == SESSIONS[sid] IN
        /\ s.entry \in NamesOf(s.files)
        /\ \A k \in 1..Len(s.files) : StrictSafe(s.files[k].name)
        /\ Len(s.files) <= MAX_FILES
        /\ s.mode \in {"run", "debug"}
        /\ \A k \in 1..Len(s.breakpoints) : s.breakpoints[k].line >= 1

----------------------------------------------------------------------------
(* Reference notions the supervisor claims are stated against *)

\* the attachment got as far as its supervision loop (the pump tasks exist)
ReachedLoop(a) == a.out_task # "none"

IsAwait(t) == t \in {"await_true", "await_false"}

\* the awaiting_input frames of a stream, in order
Awaits(w) == SelectSeq(w, IsAwait)

CountTag(w, t) == Cardinality({k \in 1..Len(w) : w[k] = t})

\* the attachments that supervise child pid now
Supervisors(pid) ==
    {i \in 1..Len(att) : /\ att[i].proc = pid
                         /\ att[i].pc \in {"loop", "fin_wait", "fin_close"}}

\* C1: on every stream an exit frame is the last frame (no frame of any type,
\* no second exit, follows it), and an attachment that reached its
\* supervision loop and whose client stayed connected has ended with one.
C1_ExitIsLast ==
    \A i \in 1..Len(att) :
        LET w == att[i].wire IN
        /\ \A k \in 1..Len(w) : w[k] = "exit" => k = Len(w)
        /\ (att[i].pc = "done" /\ ReachedLoop(att[i]) /\ att[i].client = "connected")
              => (w # <<>> /\ w[Len(w)] = "exit")

\* a handler has returned to a connected client after output frames, its
\* pumps cancelled while the child's stdout still held unread output
C1_Witness ==
    \E i \in 1..Len(att) :
        /\ att[i].pc = "done"
        /\ att[i].client = "connected"
        /\ att[i].out_task = "cancelled"
        /\ procs[att[i].proc].pipe["out"] # <<>>
        /\ CountTag(att[i].wire, "out") >= 1
        /\ att[i].wire[Len(att[i].wire)] = "exit"

\* C2: when a handler that got into its supervision loop has returned,
\* however the loop and the finally ended, its workdir is not on disk.
C2_WorkdirRemoved ==
    \A i \in 1..Len(att) :
        (att[i].pc = "done" /\ ReachedLoop(att[i])) => att[i].workdir \notin disk

\* C3: an attach to a session id after an attachment to that id has closed
\* is answered with err "invalid session_id" and nothing else: no handler
\* runs, so no child is spawned and no workdir made.
C3_ClosedIdIsGone ==
    \A i \in 1..Len(att) :
        att[i].afterClose =>
            /\ att[i].wire = <<"err:invalid session_id">>
            /\ att[i].handler = "none"

\* C4: a child has at most one supervising attachment at any instant, and at
\* most one attachment ever reads its output, writes to its stdin or signals
\* it.
C4_SingleSupervisor ==
    \A pid \in 1..Len(procs) :
        /\ Cardinality(Supervisors(pid)) <= 1
        /\ Cardinality(procs[pid].users) <= 1

\* C7: on every stream the awaiting_input frames alternate, the first of
\* them true.
C7_Alternates ==
    \A i \in 1..Len(att) :
        LET s == Awaits(att[i].wire) IN
        \A k \in 1..Len(s) :
            s[k] = IF k % 2 = 1 THEN "await_true" ELSE "await_false"

\* C8: in a run session no more awaiting_input=false frames are sent than
\* `in` frames were written to the child, and at termination the true frames
\* number the written `in` frames plus the prompt still pending (the last
\* awaiting_input frame being true).
C8_TrueCountsInputs ==
    \A i \in 1..Len(att) :
        LET a == att[i]
            s == Awaits(a.wire)
            pending == IF s # <<>> /\ s[Len(s)] = "await_true" THEN 1 ELSE 0
        IN  (a.handler = "run" /\ a.client = "connected") =>
              /\ CountTag(a.wire, "await_false") <= a.writes
              /\ a.pc = "done" =>
                    CountTag(a.wire, "await_true") = a.writes + pending

\* C11: in a run session whose client stays connected, when the exit frame is
\* on the stream nothing the child wrote to stdout or stderr is left unread:
\* both pumps were drained to EOF before the exit frame was sent.
C11_DrainedBeforeExit ==
    \A i \in 1..Len(att) :
        LET a == att[i] IN
        (a.handler = "run" /\ a.client = "connected" /\ CountTag(a.wire, "exit") >= 1)
            => /\ procs[a.proc].pipe["out"] = <<>>
               /\ procs[a.proc].pipe["err"] = <<>>

----------------------------------------------------------------------------
(* SpecLive: Spec under the scheduling the event loop and the kernel give:  *)
(* a handler that can take its next step out of the loop or in the finally  *)
(* takes it, a pump task that can read does, the watchdog's sleep ends, and  *)
(* a child that was sent SIGKILL ends.  A child that was sent SIGTERM, or   *)
(* none, may run on for ever.                                               *)

\* the steps of a handler that wait for nothing but the event loop
Progress(i) ==
    /\ i \in 1..Len(att)
    /\ LoopExit(i) \/ FinExit(i) \/ FinClose(i) \/ go_tail(i)

\* the pump tasks read what is in their pipes, and its end
Pumping(i) ==
    /\ i \in 1..Len(att)
    /\ \E fd \in {"out", "err"} : PumpData(i, fd) \/ PumpEnd(i, fd)

\* a pump task has something to read: data, or the end of its pipe
PumpReady(i) ==
    /\ i \in 1..Len(att)
    /\ att[i].pc # "done"
    /\ \E fd \in {"out", "err"} :
          /\ Task(att[i], fd) = "running"
          /\ procs[att[i].proc].pipe[fd] # <<>> \/ ~procs[att[i].proc].alive

\* weak fairness of Pumping(i), its enabling condition written out
PumpFair(i) == []<>(~PumpReady(i)) \/ []<><<Pumping(i)>>_vars

\* asyncio.sleep(WALL) of the watchdog task returns
Expiry(i) == i \in 1..Len(att) /\ watchdog(i)

\* SIGKILL is neither caught nor ignored
KilledExit ==
    \E pid \in 1..Len(procs) : procs[pid].signal = "kill" /\ ChildExit(pid)

SpecLive ==
    /\ Init
    /\ [][Next]_vars
    /\ WF_vars(KilledExit)
    /\ \A i \in 1..MaxAttach :
          WF_vars(Progress(i)) /\ PumpFair(i) /\ WF_vars(Expiry(i))

\* the handler has returned to a client that stayed connected: the exit frame
\* is the last frame and carries rc, the stream is closed, the workdir gone
EndedWith(a, rc) ==
    /\ a.pc = "done"
    /\ a.client = "connected" =>
          /\ a.wire # <<>> /\ a.wire[Len(a.wire)] = "exit"
          /\ a.code = rc
          /\ a.ws = "closed"
          /\ a.workdir \notin disk

\* C12: whenever the watchdog of a run session fires on a child that still
\* runs, the handler goes on to return, and the client that is still there
\* then has the exit frame with the killed child's return code, a closed
\* stream and no workdir left, whatever frames it sent in between.
C12_WatchdogEnds ==
    \A i \in 1..MaxAttach :
        (i \in 1..Len(att) /\ att[i].t_wd = "fired")
            ~> (i \in 1..Len(att) /\ EndedWith(att[i], RcOf("kill")))

\* the watchdog fired on a live child of a client that had sent a frame, and
\* the handler has returned with the exit frame of the killed child
C12_Witness ==
    \E i \in 1..Len(att) :
        /\ att[i].t_wd = "fired"
        /\ att[i].frames >= 1
        /\ att[i].client = "connected"
        /\ att[i].wire # <<>> /\ att[i].wire[Len(att[i].wire)] = "exit"
        /\ EndedWith(att[i], RcOf("kill"))

DebugHandlers == {"python", "cpp", "go"}

\* C13: a debug attachment too is bounded in time: a handler in its
\* supervision loop whose client stays connected goes on to leave the loop
\* for the finally (where the child is ended and the exit frame sent), also
\* when the backend neither exits nor reports terminated and the client
\* sends no stop.
C13_DebugBounded ==
    \A i \in 1..MaxAttach :
        (i \in 1..Len(att) /\ att[i].handler \in DebugHandlers /\ att[i].pc = "loop")
            ~> (i \in 1..Len(att) /\ (att[i].pc # "loop" \/ att[i].client = "gone"))

\* the child of attachment a was sent SIGTERM by a handler and still runs
TermPending(a) ==
    /\ a.proc \in 1..Len(procs)
    /\ procs[a.proc].alive
    /\ procs[a.proc].signal = "term"

\* C14: graceful, then forceful: a child that still runs after the handler
\* sent it SIGTERM (on a stop or close frame of a run session, in the cleanup
\* of a debug attachment) is ended all the same, so that the handler's
\* wait for it returns and the session gets to its exit frame.
C14_TermThenKill ==
    \A i \in 1..MaxAttach :
        (i \in 1..Len(att) /\ TermPending(att[i]))
            ~> (i \in 1..Len(att) /\ ~TermPending(att[i]))

\* C15: on the stream of a run session no out frame follows the status
\* stopping frame.
C15_QuietAfterStopping ==
    \A i \in 1..Len(att) :
        LET a == att[i] IN
        (a.handler = "run" /\ a.stop_at > 0) =>
            \A k \in (a.stop_at + 1)..Len(a.wire) : a.wire[k] # "out"

\* the client frames that violate the stream protocol: text that is no JSON,
\* an object of unknown type, a debug_cmd with an unknown command
Violations == {"bad_json", "unknown", "debug_unknown"}

\* C24: a client frame that is not valid JSON, has an unknown type or is a
\* debug_cmd with an unknown command is answered with exactly one err frame;
\* the child process and the handler's breakpoint list are left as they
\* were, and the handler is back in its loop for the frames that follow.
C24_ViolationsNonFatal ==
    [][\A i \in 1..Len(att) : \A m \in Violations :
          Receive(i, m) =>
              /\ att'[i].wire = Append(att[i].wire, "err:msg")
              /\ att'[i].bps = att[i].bps
              /\ att'[i].pc = "loop"
              /\ procs' = procs]_vars

\* a run attachment has answered a violation with err and, still in its
\* loop, has then forwarded an `in` frame to the child
C24_Witness ==
    \E i \in 1..Len(att) :
        /\ att[i].handler = "run"
        /\ att[i].pc = "loop"
        /\ att[i].writes = 1
        /\ \E k \in 1..Len(att[i].wire) - 1 :
              /\ att[i].wire[k] = "err:msg"
              /\ att[i].wire[k + 1] = "await_false"


\* pump_stdout of a debug handler read the terminated event of a backend the
\* client never commanded and never left: starting, running and exited are
\* the three status frames of such a session
RanToCompletion(a) ==
    /\ a.handler \in {"python", "cpp"}
    /\ a.frames = 0
    /\ a.client = "connected"
    /\ CountTag(a.wire, "status") = 3

\* C25: a debug session whose program ran to normal completion, the backend
\* having reported terminated, carries code 0 in its exit frame however the
\* terminated event and the exit of the backend process interleave.
C25_NormalExitCodeZero ==
    \A i \in 1..Len(att) :
        (RanToCompletion(att[i]) /\ att[i].code # RC_NONE) => att[i].code = 0

\* C30: the per-file cap is 200 KiB: a create request is not refused as
\* `file too large` when every file has at most 204800 bytes of UTF-8
\* content, and is refused with status 400 when a file has more.
C30_FileCap200KiB ==
    [][ posts' = posts + 1 =>
          /\ (\E k \in 1..Len(req'.files) : req'.files[k].bytes > 200 * 1024)
                => resp'.status = 400
          /\ (\A k \in 1..Len(req'.files) : req'.files[k].bytes <= 200 * 1024)
                => resp'.detail # "file too large" ]_vars
----------------------------------------------------------------------------
(* SpecDebug: one debug attachment in its supervision loop, the JSON-lines  *)
(* shim behind it (oc_py_debugger.py, oc_cpp_debugger.py,                   *)
(* oc_java_debugger.py) and the debugger the shim drives.                   *)

\* A path is the sequence of its components, "/" first when it is absolute;
\* "entry" is the session's entry file (main.py, main.cpp, Main.java).
P_abs == <<"/", "work", "entry">>
P_rel == <<"entry">>
P_tmp == <<"/", "tmp", "entry">>

\* docker run -w /work
CWD == <<"/", "work">>

IsAbs(p) == p # <<>> /\ p[1] = "/"

\* os.path.abspath: join with the cwd, drop the "." components
abspath(p) == SelectSeq(IF IsAbs(p) THEN p ELSE CWD \o p, LAMBDA c : c # ".")

dirname(p) == SubSeq(p, 1, Len(p) - 1)

\* OmniDebugger.workdir, the shim being started as
\* `python oc_py_debugger.py <entry>`
shim_workdir == dirname(abspath(P_rel))

\* os.path.commonpath([a, d]) == d
Under(a, d) == Len(a) >= Len(d) /\ SubSeq(a, 1, Len(d)) = d

\* OmniDebugger._normalize_path
normalize_path(path) ==
    IF path = <<>> THEN path
    ELSE LET a == abspath(path) IN
         IF Under(a, shim_workdir)
         THEN SubSeq(a, Len(shim_workdir) + 1, Len(a))
         ELSE path

\* bdb.Bdb.canonic
canonic(filename) == abspath(filename)

\* the number of lines of the script being debugged
ProgLines == 2

\* bdb.Bdb.set_break: linecache.getline must find the line, else the
\* breakpoint is not set.  /work/<entry> is the one source file there is.
set_break(B, filename, line) ==
    LET f == canonic(filename) IN
    IF f = P_abs /\ line \in 1..ProgLines
    THEN B \cup {[file |-> f, line |-> line]} ELSE B

\* for bp in ...: set_break(_normalize_path(bp["file"]), bp["line"])
RECURSIVE set_breaks(_, _)
set_breaks(B, list) ==
    IF list = <<>> THEN B
    ELSE set_breaks(set_break(B, normalize_path(Head(list).file), Head(list).line),
                    Tail(list))

BpOf(f, l) == [file |-> f, line |-> l]

Range(s) == {s[k] : k \in 1..Len(s)}

\* an event line of a shim, a frame of the handler
Event(e, body) == [event |-> e, body |-> body]
DFrame(t, body) == [type |-> t, body |-> body]

\* OmniDebugger._collect_state at line n of the script, compiled under the
\* name it was given on the command line
collect_state(n) ==
    [file |-> P_rel, line |-> n,
     stack |-> <<[file |-> P_rel, line |-> n, func |-> "<module>"]>>]

\* the breakpoint lists a python session is created with
InitLists == {<<>>, <<BpOf(P_rel, ProgLines)>>}

\* main() of oc_py_debugger.py up to dbg.run: the breakpoints of OC_INIT_BPS
\* are set, and only if there are none the debugger stops at the first line
PyStart(list) ==
    [state |-> "running", line |-> 0, step |-> list = <<>>]

\* send_cmd raises once the shim's stdin is closing: the python shim ends
\* with the script, the gdb shim stays (it waits for gdb, which is not told
\* to exit)
StdinOpen == d_lang = "cpp" \/ d_run.state # "ended"

shimVars == <<d_shim, d_probe>>

\* the number of lines of the C++ program being debugged
CppLines == 3

\* the file gdb resolves a -break-insert location to; <<>> when it knows no
\* such source file
GdbFile(f) == IF abspath(f) = P_abs THEN P_abs ELSE <<>>

\* nothing is in flight between the handler, the shim and the debugger
Quiet ==
    /\ d_cmds = <<>>
    /\ d_shim.gin = <<>>
    /\ d_shim.cmd.pc = "idle" /\ d_shim.stop.pc = "none"
    /\ d_shim.pending.owner = "none"

\* the (file, line) keys of the shim's record of the breakpoints it has
\* set: bp_ids of the gdb shim, the breaks of bdb
Registry ==
    IF d_lang = "cpp" THEN {[file |-> r.file, line |-> r.line] : r \in d_shim.ids}
    ELSE d_breaks

\* the debugger holds a live breakpoint at the place bp names
LiveAt(bp) ==
    IF d_lang = "cpp"
    THEN \E b \in d_breaks : b.file = GdbFile(bp.file) /\ b.line = bp.line
    ELSE [file |-> canonic(normalize_path(bp.file)), line |-> bp.line] \in d_breaks

\* neither the list nor the debugger has a breakpoint at the place bp names
Fresh(bp) ==
    /\ \A k \in 1..Len(d_list) :
          ~(abspath(d_list[k].file) = abspath(bp.file) /\ d_list[k].line = bp.line)
    /\ ~LiveAt(bp)

\* the probe follows the first add of a fresh breakpoint made while nothing
\* is in flight (phase 1), and the remove of the same breakpoint that comes
\* right after it (phase 2); any other frame ends it (phase 3)
ProbeNext(kind, bp) ==
    CASE d_probe.phase = 0 /\ kind = "add" /\ StdinOpen /\ Quiet /\ Fresh(bp) ->
            [phase |-> 1, bp |-> bp, list |-> d_list, ids |-> Registry]
      [] d_probe.phase = 1 /\ kind = "remove" /\ StdinOpen /\ bp = d_probe.bp ->
            [d_probe EXCEPT !.phase = 2]
      [] d_probe.phase \in {1, 2} -> [d_probe EXCEPT !.phase = 3]
      [] OTHER -> d_probe

\* sync_breakpoints(): set_breakpoints with the whole list
sync_breakpoints(list) ==
    /\ d_cmds' = Append(d_cmds, [type |-> "set_breakpoints", breakpoints |-> list])
    /\ d_count' = [d_count EXCEPT !.sent = @ + 1]

\* the handler before its loop: the initial breakpoints are synced, then
\* status running
HostStart ==
    /\ d_host = "start"
    /\ d_host' = "loop"
    /\ IF d_list # <<>> /\ StdinOpen
       THEN sync_breakpoints(d_list)
       ELSE UNCHANGED <<d_cmds, d_count>>
    /\ d_wire' = Append(d_wire, DFrame("status", [phase |-> "running"]))
    /\ UNCHANGED <<otherVars, d_lang, d_list, d_events, d_run, d_breaks, shimVars>>

\* what a client frame adds to the counters
Counted(c, synced) ==
    [c EXCEPT !.frames = @ + 1, !.sent = IF synced THEN @ + 1 ELSE @]

DebugFailed == DFrame("err", [data |-> "debug command failed"])

\* debug_cmd add_breakpoint: the list is extended, synced, and the event sent
HostAdd(f, l) ==
    LET bp == BpOf(f, l)
        list == IF bp \in Range(d_list) THEN d_list ELSE Append(d_list, bp)
    IN  /\ d_host = "loop"
        /\ d_list' = list
        /\ IF StdinOpen
           THEN /\ d_cmds' = Append(d_cmds, [type |-> "set_breakpoints",
                                             breakpoints |-> list])
                /\ d_wire' = Append(d_wire,
                      DFrame("breakpoints",
                             [added |-> bp, sent |-> d_count.sent + 1,
                              acks |-> d_count.acks]))
           ELSE /\ d_cmds' = d_cmds
                /\ d_wire' = Append(d_wire, DebugFailed)
        /\ d_count' = Counted(d_count, StdinOpen)
        /\ d_probe' = ProbeNext("add", bp)
        /\ UNCHANGED <<otherVars, d_lang, d_host, d_events, d_run, d_breaks, d_shim>>

\* debug_cmd remove_breakpoint: the entries equal to the target in file and
\* line are dropped, the list synced, and the event sent
HostRemove(f, l) ==
    LET list == SelectSeq(d_list, LAMBDA b : ~(b.file = f /\ b.line = l)) IN
        /\ d_host = "loop"
        /\ d_list' = list
        /\ IF StdinOpen
           THEN /\ d_cmds' = Append(d_cmds, [type |-> "set_breakpoints",
                                             breakpoints |-> list])
                /\ d_wire' = Append(d_wire,
                      DFrame("breakpoints",
                             [removed |-> BpOf(f, l), sent |-> d_count.sent + 1,
                              acks |-> d_count.acks]))
           ELSE /\ d_cmds' = d_cmds
                /\ d_wire' = Append(d_wire, DebugFailed)
        /\ d_count' = Counted(d_count, StdinOpen)
        /\ d_probe' = ProbeNext("remove", BpOf(f, l))
        /\ UNCHANGED <<otherVars, d_lang, d_host, d_events, d_run, d_breaks, d_shim>>

\* debug_cmd continue / next / evaluate: the command is written to the shim
HostForward(cmd) ==
    /\ d_host = "loop"
    /\ IF StdinOpen
       THEN d_cmds' = Append(d_cmds, cmd) /\ d_wire' = d_wire
       ELSE d_cmds' = d_cmds /\ d_wire' = Append(d_wire, DebugFailed)
    /\ d_count' = Counted(d_count, FALSE)
    /\ d_probe' = ProbeNext("other", NoProbe.bp)
    /\ UNCHANGED <<otherVars, d_lang, d_host, d_list, d_events, d_run, d_breaks, d_shim>>

HostContinue == HostForward([type |-> "continue"])
HostNext     == HostForward([type |-> "step_over"])
HostEvaluate == HostForward([type |-> "evaluate", expr |-> "x"])

\* pump_stdout of the handler on one event line of the shim
HostPump ==
    /\ d_host # "closed"
    /\ d_events # <<>>
    /\ LET e == Head(d_events) IN
       /\ d_events' = Tail(d_events)
       /\ d_wire' = Append(d_wire,
             CASE e.event = "stopped" ->
                    DFrame("paused", [file |-> e.body.file, line |-> e.body.line,
                                      stack |-> e.body.stack])
               [] e.event = "evaluate_result" -> DFrame("evaluate_result", e.body)
               [] e.event = "breakpoints_set" -> DFrame("breakpoints", [synced |-> TRUE])
               [] e.event = "terminated" -> DFrame("status", [data |-> "exited"]))
       /\ d_count' = IF e.event = "breakpoints_set"
                     THEN [d_count EXCEPT !.acks = @ + 1] ELSE d_count
       /\ d_host' = IF e.event = "terminated" THEN "closed" ELSE d_host
    /\ UNCHANGED <<otherVars, d_lang, d_list, d_cmds, d_run, d_breaks, shimVars>>

Emit(e, body) == d_events' = Append(d_events, Event(e, body))

\* the script runs one line on: bdb stops at a line it steps to or that
\* holds a breakpoint (user_line: the stopped event, then _wait_for_command)
PyLine ==
    /\ d_lang = "python"
    /\ d_run.state = "running"
    /\ d_run.line < ProgLines
    /\ LET n == d_run.line + 1
           stop == d_run.step \/ [file |-> canonic(P_rel), line |-> n] \in d_breaks
       IN  /\ d_run' = [state |-> IF stop THEN "paused" ELSE "running",
                        line |-> n, step |-> FALSE]
           /\ IF stop THEN Emit("stopped", collect_state(n))
                      ELSE UNCHANGED d_events
    /\ UNCHANGED <<otherVars, d_lang, d_host, d_list, d_cmds, d_wire, d_breaks, d_count, shimVars>>

\* the script has run to its end: terminated, and the shim exits
PyEnd ==
    /\ d_lang = "python"
    /\ d_run.state = "running"
    /\ d_run.line = ProgLines
    /\ d_run' = [d_run EXCEPT !.state = "ended"]
    /\ Emit("terminated", [reason |-> "end"])
    /\ UNCHANGED <<otherVars, d_lang, d_host, d_list, d_cmds, d_wire, d_breaks, d_count, shimVars>>

\* every command makes _wait_for_command return and the script run on
wait_for_command_any(run, t) ==
    [run EXCEPT !.state = "running", !.step = t # "continue"]

\* what _wait_for_command makes of a command of type t: continue and
\* step_over return into bdb, which runs the script on; after any other
\* command the loop takes the next one
wait_for_command(run, t) ==
    CASE t = "continue"  -> [run EXCEPT !.state = "running"]
      [] t = "step_over" -> [run EXCEPT !.state = "running", !.step = TRUE]
      [] OTHER -> run

\* OmniDebugger._wait_for_command, one command off COMMAND_QUEUE: it is
\* only here, at a stop, that the shim looks at the queue
PyCommand ==
    /\ d_lang = "python"
    /\ d_run.state = "paused"
    /\ d_cmds # <<>>
    /\ LET cmd == Head(d_cmds)
           t == cmd.type
       IN  /\ d_cmds' = Tail(d_cmds)
           /\ d_run' = wait_for_command(d_run, t)
           /\ d_breaks' = IF t = "set_breakpoints"
                          THEN set_breaks({}, cmd.breakpoints) ELSE d_breaks
           /\ CASE t = "set_breakpoints" -> Emit("breakpoints_set", [ok |-> TRUE])
                [] t = "evaluate" ->
                     Emit("evaluate_result", [expr |-> cmd.expr, value |-> "1"])
                [] OTHER -> UNCHANGED d_events
    /\ UNCHANGED <<otherVars, d_lang, d_host, d_list, d_wire, d_count, shimVars>>

\* ---- oc_cpp_debugger.py and the gdb it drives ----

\* an MI command written to gdb
Mi(op, arg) == [op |-> op, arg |-> arg]

NoPending == [owner |-> "none", done |-> FALSE]

\* send_cmd up to its await: with expect_response the new future replaces
\* whatever pending held, then the command is written to gdb
send_cmd(sh, who, mi, expect) ==
    [sh EXCEPT !.gin = Append(@, mi),
               !.pending = IF expect THEN [owner |-> who, done |-> FALSE] ELSE @]

\* the finally of send_cmd: if pending is fut: pending = None
release(sh, who) ==
    IF sh.pending.owner = who THEN [sh EXCEPT !.pending = NoPending] ELSE sh

\* asyncio.wait_for(fut, timeout=5.0) runs out: nothing can resolve the
\* future any more (pending holds another one or none), or gdb is silent
\* because the program it runs keeps running
TimedOut(who) ==
    /\ d_shim[who].res = NoRes
    /\ \/ d_shim.pending.owner # who
       \/ d_run.state = "running" /\ d_shim.gin # <<>>

\* the loop of apply_breakpoints: the next breakpoint is sent to gdb and its
\* response awaited; none being left, the task is back in pump_commands
apply_loop(sh, todo) ==
    IF todo = <<>> THEN [sh EXCEPT !.cmd = ShimTask("idle")]
    ELSE [send_cmd(sh, "cmd", Mi("insert", Head(todo)), TRUE)
             EXCEPT !.cmd = [ShimTask("apply") EXCEPT !.todo = todo]]

\* apply_breakpoints up to its first await: the registry is cleared and its
\* ids deleted without waiting for gdb's response
apply_breakpoints(sh, list) ==
    apply_loop(IF sh.ids # {}
               THEN [send_cmd(sh, "cmd", Mi("delete", {r.id : r \in sh.ids}), FALSE)
                        EXCEPT !.ids = {}]
               ELSE sh,
               list)

\* bp_ids[(file, line)] = number
registered(ids, bp, number) ==
    {r \in ids : ~(r.file = bp.file /\ r.line = bp.line)}
        \cup {[file |-> bp.file, line |-> bp.line, id |-> number]}

\* pump_commands takes a command off CMD_QUEUE and runs it to its first await
CppCommand ==
    /\ d_lang = "cpp"
    /\ ~d_shim.exit
    /\ d_shim.cmd.pc = "idle"
    /\ d_cmds # <<>>
    /\ LET cmd == Head(d_cmds)
           t == cmd.type
           sh == CASE t = "set_breakpoints" -> apply_breakpoints(d_shim, cmd.breakpoints)
                   [] t = "continue" ->
                        [send_cmd(d_shim, "cmd", Mi("continue", 0), TRUE)
                            EXCEPT !.cmd = ShimTask("resume")]
                   [] t = "step_over" ->
                        [send_cmd(d_shim, "cmd", Mi("next", 0), TRUE)
                            EXCEPT !.cmd = ShimTask("resume")]
                   [] t = "evaluate" ->
                        [send_cmd(d_shim, "cmd", Mi("eval", 0), TRUE)
                            EXCEPT !.cmd = ShimTask("eval")]
       IN  /\ d_cmds' = Tail(d_cmds)
           /\ d_shim' = sh
           /\ IF t = "set_breakpoints" /\ sh.cmd.pc = "idle"
              THEN Emit("breakpoints_set", [ok |-> TRUE])
              ELSE UNCHANGED d_events
    /\ UNCHANGED <<otherVars, d_lang, d_host, d_list, d_wire, d_run, d_breaks,
                   d_count, d_probe>>

\* pump_commands is resumed with the response its send_cmd awaited
CppResult ==
    /\ d_lang = "cpp"
    /\ ~d_shim.exit
    /\ d_shim.cmd.pc \in {"apply", "resume", "eval"}
    /\ d_shim.cmd.res # NoRes
    /\ LET c == d_shim.cmd
           sh0 == release(d_shim, "cmd")
       IN  CASE c.pc = "apply" ->
                  LET bp == Head(c.todo)
                      sh1 == IF c.res.number > 0
                             THEN [sh0 EXCEPT !.ids = registered(@, bp, c.res.number)]
                             ELSE sh0
                      sh2 == apply_loop(sh1, Tail(c.todo))
                  IN  /\ d_shim' = sh2
                      /\ IF sh2.cmd.pc = "idle"
                         THEN Emit("breakpoints_set", [ok |-> TRUE])
                         ELSE UNCHANGED d_events
             [] c.pc = "resume" ->
                  /\ d_shim' = [sh0 EXCEPT !.cmd = ShimTask("idle")]
                  /\ UNCHANGED d_events
             [] c.pc = "eval" ->
                  /\ d_shim' = [sh0 EXCEPT !.cmd = ShimTask("idle")]
                  /\ Emit("evaluate_result",
                          IF c.res.kind = "done"
                          THEN [expr |-> "x", value |-> "1"]
                          ELSE [expr |-> "x", error |-> "^error"])
    /\ UNCHANGED <<otherVars, d_lang, d_host, d_list, d_cmds, d_wire, d_run,
                   d_breaks, d_count, d_probe>>

\* the send_cmd of pump_commands times out: nothing catches the TimeoutError
\* and the task ends
CppTimeout ==
    /\ d_lang = "cpp"
    /\ ~d_shim.exit
    /\ d_shim.cmd.pc \in {"apply", "resume", "eval"}
    /\ TimedOut("cmd")
    /\ d_shim' = [release(d_shim, "cmd") EXCEPT !.cmd = ShimTask("dead")]
    /\ UNCHANGED <<otherVars, d_lang, d_host, d_list, d_cmds, d_events, d_wire,
                   d_run, d_breaks, d_count, d_probe>>

\* pump_gdb_stdout on a result record (^done, ^running, ^error): it
\* resolves the pending future if there is one that is not done, and is
\* dropped otherwise.  gdb writing a line and the pump reading it are one
\* step: the pump does nothing but read.
pump_gdb_stdout(sh, r) ==
    IF ~sh.exit /\ sh.pending.owner # "none" /\ ~sh.pending.done
    THEN [sh EXCEPT !.pending.done = TRUE, ![sh.pending.owner].res = r]
    ELSE sh

\* handle_stop: -stack-list-frames is sent
CppStopStack ==
    /\ d_lang = "cpp"
    /\ ~d_shim.exit
    /\ d_shim.stop.pc = "spawned"
    /\ d_shim' = [send_cmd(d_shim, "stop", Mi("stack", 0), TRUE)
                     EXCEPT !.stop.pc = "stack"]
    /\ UNCHANGED <<otherVars, d_lang, d_host, d_list, d_cmds, d_events, d_wire,
                   d_run, d_breaks, d_count, d_probe>>

\* handle_stop: the stack response has come, or "" after the timeout;
\* -stack-list-variables is sent
CppStopLocals ==
    /\ d_lang = "cpp"
    /\ ~d_shim.exit
    /\ d_shim.stop.pc = "stack"
    /\ d_shim.stop.res # NoRes \/ TimedOut("stop")
    /\ LET s == d_shim.stop IN
       d_shim' = [send_cmd(release(d_shim, "stop"), "stop", Mi("locals", 0), TRUE)
                     EXCEPT !.stop = [s EXCEPT !.pc = "locals", !.res = NoRes,
                                               !.stack = s.res.frames]]
    /\ UNCHANGED <<otherVars, d_lang, d_host, d_list, d_cmds, d_events, d_wire,
                   d_run, d_breaks, d_count, d_probe>>

\* handle_stop: the locals response has come, or "" after the timeout; the
\* stopped event is emitted with the frames _parse_stack_frames found
CppStopEmit ==
    /\ d_lang = "cpp"
    /\ ~d_shim.exit
    /\ d_shim.stop.pc = "locals"
    /\ d_shim.stop.res # NoRes \/ TimedOut("stop")
    /\ d_shim' = [release(d_shim, "stop") EXCEPT !.stop = ShimTask("none")]
    /\ Emit("stopped", [file |-> P_abs, line |-> d_shim.stop.top,
                        stack |-> d_shim.stop.stack])
    /\ UNCHANGED <<otherVars, d_lang, d_host, d_list, d_cmds, d_wire, d_run,
                   d_breaks, d_count, d_probe>>

\* gdb reads one MI command; it reads none while the program runs
GdbCommand ==
    /\ d_lang = "cpp"
    /\ d_shim.gin # <<>>
    /\ d_run.state # "running"
    /\ LET mi == Head(d_shim.gin)
           paused == d_run.state = "paused"
           reply(r) == pump_gdb_stdout([d_shim EXCEPT !.gin = Tail(@)], r)
           err == Rec("error", 0, <<>>)
       IN  CASE mi.op = "delete" ->
                  /\ d_breaks' = {b \in d_breaks : b.id \notin mi.arg}
                  /\ d_shim' = reply(Rec("done", 0, <<>>))
                  /\ UNCHANGED d_run
             [] mi.op = "insert" ->
                  LET f == GdbFile(mi.arg.file)
                      ok == f # <<>> /\ mi.arg.line \in 1..CppLines
                  IN  /\ d_breaks' = IF ok
                                     THEN d_breaks \cup {[id |-> d_shim.next, file |-> f,
                                                          line |-> mi.arg.line]}
                                     ELSE d_breaks
                      /\ d_shim' = IF ok
                                   THEN [reply(Rec("done", d_shim.next, <<>>))
                                            EXCEPT !.next = d_shim.next + 1]
                                   ELSE reply(err)
                      /\ UNCHANGED d_run
             [] mi.op \in {"continue", "next"} ->
                  /\ d_run' = IF paused
                              THEN [d_run EXCEPT !.state = "running",
                                                 !.step = mi.op = "next"]
                              ELSE d_run
                  /\ d_shim' = reply(IF paused THEN Rec("running", 0, <<>>) ELSE err)
                  /\ UNCHANGED d_breaks
             [] mi.op = "stack" ->
                  /\ d_shim' = reply(IF paused
                                     THEN Rec("done", 0, <<[file |-> P_abs,
                                                            line |-> d_run.line,
                                                            func |-> "main"]>>)
                                     ELSE err)
                  /\ UNCHANGED <<d_run, d_breaks>>
             [] mi.op \in {"locals", "eval"} ->
                  /\ d_shim' = reply(IF paused THEN Rec("done", 0, <<>>) ELSE err)
                  /\ UNCHANGED <<d_run, d_breaks>>
    /\ UNCHANGED <<otherVars, d_lang, d_host, d_list, d_cmds, d_events, d_wire,
                   d_count, d_probe>>

\* the line the running program stops at next: the line it steps to, or the
\* first one ahead that holds a breakpoint; 0 when it runs to its end
NextStop ==
    LET ahead == {n \in d_run.line + 1 .. CppLines :
                     (d_run.step /\ n = d_run.line + 1)
                     \/ \E b \in d_breaks : b.file = P_abs /\ b.line = n}
    IN  IF ahead = {} THEN 0 ELSE CHOOSE n \in ahead : \A m \in ahead : n <= m

\* the program runs on under gdb and stops; pump_gdb_stdout reads *stopped
\* and creates the handle_stop task (one such task at a time)
GdbLine ==
    /\ d_lang = "cpp"
    /\ d_run.state = "running"
    /\ NextStop # 0
    /\ d_shim.stop.pc = "none"
    /\ d_run' = [state |-> "paused", line |-> NextStop, step |-> FALSE]
    /\ d_shim' = IF d_shim.exit THEN d_shim
                 ELSE [d_shim EXCEPT !.stop = [ShimTask("spawned") EXCEPT !.top = NextStop]]
    /\ UNCHANGED <<otherVars, d_lang, d_host, d_list, d_cmds, d_events, d_wire,
                   d_breaks, d_count, d_probe>>

\* the program runs to its end: on *stopped,reason="exited-normally"
\* handle_stop emits terminated and sets exit_event, and main() cancels the
\* tasks
GdbEnd ==
    /\ d_lang = "cpp"
    /\ d_run.state = "running"
    /\ NextStop = 0
    /\ d_run' = [d_run EXCEPT !.state = "ended"]
    /\ d_shim' = [d_shim EXCEPT !.exit = TRUE]
    /\ IF d_shim.exit THEN UNCHANGED d_events
       ELSE Emit("terminated", [reason |-> "exited"])
    /\ UNCHANGED <<otherVars, d_lang, d_host, d_list, d_cmds, d_wire,
                   d_breaks, d_count, d_probe>>

\* main() of oc_cpp_debugger.py once -exec-run is answered: the breakpoints
\* of OC_INIT_BPS were inserted one by one into an empty registry
CppStart(list) ==
    [ShimIdle EXCEPT
        !.ids = {[file |-> list[k].file, line |-> list[k].line, id |-> k] :
                    k \in 1..Len(list)},
        !.next = Len(list) + 1]

\* and gdb holds them
GdbStart(list) ==
    {[id |-> k, file |-> GdbFile(list[k].file), line |-> list[k].line] :
        k \in 1..Len(list)}

\* the files the client names in its breakpoint frames
ClientPaths == {P_abs, P_rel, P_tmp}

\* and the lines
ClientLines == {ProgLines}

\* client frames per session
MaxCmds == 3

ClientFrame ==
    /\ d_count.frames < MaxCmds
    /\ \/ \E f \in ClientPaths, l \in ClientLines : HostAdd(f, l) \/ HostRemove(f, l)
       \/ HostContinue
       \/ HostNext
       \/ HostEvaluate

\* the state of a session whose handler has created its pump tasks
DebugStart(lang, list) ==
    /\ d_lang = lang
    /\ d_host = "start"
    /\ d_list = list
    /\ d_cmds = <<>>
    /\ d_events = <<>>
    /\ d_wire = <<>>
    /\ d_run = IF lang = "cpp"
               THEN [state |-> "running", line |-> 0, step |-> FALSE]
               ELSE PyStart(list)
    /\ d_breaks = IF lang = "cpp" THEN GdbStart(list) ELSE set_breaks({}, list)
    /\ d_count = [sent |-> 0, acks |-> 0, frames |-> 0]
    /\ d_shim = IF lang = "cpp" THEN CppStart(list) ELSE ShimIdle
    /\ d_probe = NoProbe

\* nothing but the debug session is followed
DebugOnly ==
    /\ SESSIONS = <<>> /\ disk = {} /\ wdMade = 0 /\ procs = <<>>
    /\ posts = 0 /\ req = NoReq /\ resp = NoResp /\ att = <<>>
    /\ launched = <<>>
    /\ mirror = MirrorIdle
    /\ pyio = PyIoIdle
    /\ talk = TalkIdle
    /\ adapter = AdapterIdle
    /\ p_stream = <<>> /\ p_pos = 0 /\ p_carry = <<>> /\ p_last = <<>>
    /\ p_out = <<>> /\ p_nsent = 0 /\ p_pc = "done"

DebugInit ==
    /\ \E list \in InitLists : DebugStart("python", list)
    /\ DebugOnly

DebugNext ==
    \/ HostStart
    \/ ClientFrame
    \/ HostPump
    \/ PyLine
    \/ PyEnd
    \/ PyCommand

SpecDebug == DebugInit /\ [][DebugNext]_vars

\* SpecGdb: a C++ debug session.  The breakpoint lists it is created with:
CppLists == {<<>>, <<BpOf(P_rel, 1), BpOf(P_rel, 2)>>}

\* client frames per C++ session
MaxGdbCmds == 2

GdbClient ==
    /\ d_count.frames < MaxGdbCmds
    /\ \/ HostAdd(P_rel, CppLines)
       \/ HostRemove(P_rel, CppLines)
       \/ HostContinue

GdbInit ==
    /\ \E list \in CppLists : DebugStart("cpp", list)
    /\ DebugOnly

GdbNext ==
    \/ HostStart
    \/ GdbClient
    \/ HostPump
    \/ CppCommand
    \/ CppResult
    \/ CppTimeout
    \/ CppStopStack
    \/ CppStopLocals
    \/ CppStopEmit
    \/ GdbCommand
    \/ GdbLine
    \/ GdbEnd

SpecGdb == GdbInit /\ [][GdbNext]_vars


----------------------------------------------------------------------------
(* SpecLaunch: the docker commands of _start_process (ws_routes.py) and of  *)
(* the _prepare_<lang>_debug_session functions (run_routes.py).  A command  *)
(* is its argv, a sequence of strings.                                      *)

DOCKER_IMAGES(lang) ==
    CASE lang = "python"     -> "omni-runner:python"
      [] lang = "cpp"        -> "omni-runner:cpp"
      [] lang = "javascript" -> "omni-runner:node"
      [] lang = "go"         -> "omni-runner:go"
      [] lang = "java"       -> "omni-runner:java"

\* f"{workdir}:/work:ro" and f"{workdir}:/work:rw"
MountRo == "workdir:/work:ro"
MountRw == "workdir:/work:rw"

\* a run command that leaves the resource options out
NoLimits == <<>>

\* the resource options every command is built with
Limits == <<"--network", "none", "--cpus", "1", "--memory", "512m",
            "--pids-limit", "256">>

\* the options that let a debugger trace its child
Ptrace == <<"--cap-add=SYS_PTRACE", "--security-opt", "seccomp=unconfined">>

\* ["docker", "run", "--rm", "-i", <opts>, "-v", mount, "-w", "/work",
\*  <env>, image, <tail>]
DockerRun(opts, mount, env, lang, tail) ==
    <<"docker", "run", "--rm", "-i">> \o opts \o <<"-v", mount, "-w", "/work">>
        \o env \o <<DOCKER_IMAGES(lang)>> \o tail

Launch(lang, mode, step, argv) ==
    [lang |-> lang, mode |-> mode, step |-> step, argv |-> argv]

\* _start_process: the mount is read-only for python alone; every other
\* language runs a shell line that compiles where needed and then runs
start_process(lang) ==
    LET mount == IF lang = "python" THEN MountRo ELSE MountRw
    IN  IF lang = "python"
        THEN DockerRun(Limits, MountRo,
                       <<"-e", "PYTHONUNBUFFERED=1", "-e", "PYTHONIOENCODING=UTF-8">>,
                       lang, <<"python", "-u", "_oc_bootstrap.py">>)
        ELSE DockerRun(Limits, mount, <<>>, lang, <<"/bin/sh", "-lc", "shell_line">>)

\* the compile command of a _prepare_<lang>_debug_session, <<>> if it has none
compile_cmd(lang) ==
    CASE lang = "cpp"  -> DockerRun(Limits, MountRw, <<>>, lang,
                                    <<"g++", "-g", "-O0", "main.cpp", "-o", "main">>)
      [] lang = "java" -> DockerRun(Limits, MountRw, <<>>, lang,
                                    <<"javac", "-g", "Main.java">>)
      [] lang = "go"   -> DockerRun(Limits, MountRw, <<>>, lang,
                                    <<"sh", "-c", "go build">>)
      [] OTHER -> <<>>

\* the command that starts the debugger or the debug shim
debugger_cmd(lang) ==
    CASE lang = "cpp" ->
           DockerRun(Limits \o Ptrace, MountRw, <<>>, lang,
                     <<"gdb", "--interpreter=mi", "--quiet", "./main">>)
      [] lang = "python" ->
           DockerRun(Limits, MountRw,
                     <<"-e", "OC_INIT_BPS", "-e", "OC_INIT_BPS_PATH">>, lang,
                     <<"python", "-u", "oc_py_debugger.py", "entry">>)
      [] lang = "javascript" ->
           DockerRun(Limits, MountRw, <<"-e", "OC_INIT_BPS">>, lang,
                     <<"node", "oc_js_debugger.js", "entry">>)
      [] lang = "java" ->
           DockerRun(Limits, MountRw, <<>>, lang,
                     <<"jdb", "-sourcepath", "/work", "-classpath", "/work", "Main">>)
      [] lang = "go" ->
           DockerRun(Limits \o Ptrace, MountRw, <<>>, lang,
                     <<"dlv", "exec", "./app", "--log">>)

\* the commands a _prepare_<lang>_debug_session builds: the compile step
\* where it has one, and the debugger step unless the build failed
prepare_debug_session(lang, built) ==
    LET c == compile_cmd(lang)
        steps == IF c = <<>> THEN <<>> ELSE <<Launch(lang, "debug", "compile", c)>>
    IN  IF c # <<>> /\ ~built THEN steps
        ELSE Append(steps, Launch(lang, "debug", "debugger", debugger_cmd(lang)))

\* launches per behaviour
MaxLaunch == 2

\* ws_run starts the program of a run session
LaunchRun ==
    /\ Len(launched) < MaxLaunch
    /\ \E lang \in ALLOWED_LANGS :
          launched' = Append(launched, Launch(lang, "run", "run", start_process(lang)))
    /\ UNCHANGED <<pumpVars, createVars, att, dbgVars, mirror, adapter, pyio, talk>>

\* create_run prepares a debug session
LaunchDebug ==
    /\ Len(launched) < MaxLaunch
    /\ \E lang \in ALLOWED_LANGS, built \in BOOLEAN :
          launched' = launched \o prepare_debug_session(lang, built)
    /\ UNCHANGED <<pumpVars, createVars, att, dbgVars, mirror, adapter, pyio, talk>>

LaunchInit ==
    /\ launched = <<>>
    /\ mirror = MirrorIdle
    /\ pyio = PyIoIdle
    /\ talk = TalkIdle
    /\ adapter = AdapterIdle
    /\ SESSIONS = <<>> /\ disk = {} /\ wdMade = 0 /\ procs = <<>>
    /\ posts = 0 /\ req = NoReq /\ resp = NoResp /\ att = <<>>
    /\ p_stream = <<>> /\ p_pos = 0 /\ p_carry = <<>> /\ p_last = <<>>
    /\ p_out = <<>> /\ p_nsent = 0 /\ p_pc = "done"
    /\ DebugIdle

LaunchNext == LaunchRun \/ LaunchDebug

SpecLaunch == LaunchInit /\ [][LaunchNext]_vars

\* the value of option `opt` in a command, "" if the command has none
OptionValue(argv, opt) ==
    IF \E k \in 1..Len(argv) - 1 : argv[k] = opt
    THEN argv[(CHOOSE k \in 1..Len(argv) - 1 : argv[k] = opt) + 1]
    ELSE ""

Has(argv, word) == \E k \in 1..Len(argv) : argv[k] = word

\* the command may trace: SYS_PTRACE is added or seccomp is relaxed
Traces(argv) ==
    Has(argv, "--cap-add=SYS_PTRACE") \/ OptionValue(argv, "--security-opt") # ""

\* C27: every docker command built, compile, run or debugger step of any
\* language and mode, disables the network and caps the CPUs at 1, the
\* memory at 512 MiB and the PIDs at 256; SYS_PTRACE and the relaxed seccomp
\* profile are given exactly to the debugger step of a C++ or Go session.
C27_SandboxLimits ==
    \A k \in 1..Len(launched) :
        LET c == launched[k] IN
        /\ OptionValue(c.argv, "--network") = "none"
        /\ OptionValue(c.argv, "--cpus") = "1"
        /\ OptionValue(c.argv, "--memory") = "512m"
        /\ OptionValue(c.argv, "--pids-limit") = "256"
        /\ Traces(c.argv) <=> (c.step = "debugger" /\ c.lang \in {"cpp", "go"})

C27_Witness ==
    /\ \E k \in 1..Len(launched) : launched[k].step = "debugger" /\ launched[k].lang = "go"
    /\ \E k \in 1..Len(launched) : launched[k].step = "compile" /\ launched[k].lang = "go"

\* whether a launch needs to write to the workdir: it compiles, or it is a
\* debug launch (the breakpoint metadata)
NeedsWrite(c) ==
    \/ c.mode = "debug"
    \/ c.lang \in {"cpp", "java", "go"}

\* C28: the workdir is mounted read-only for the interpreted languages in
\* run mode (python, javascript) and read-write only where the launch
\* compiles or is a debug launch.
C28_MountMode ==
    \A k \in 1..Len(launched) :
        OptionValue(launched[k].argv, "-v") =
            IF NeedsWrite(launched[k]) THEN MountRw ELSE MountRo

----------------------------------------------------------------------------
(* SpecMirror: _handle_python_debug and _handle_js_debug side by side, each *)
(* given the same backend events and the same client frames.                *)

\* a frame to the client; the payload is always a record
MFrame(type, event, payload) == [type |-> type, event |-> event, payload |-> payload]

\* the event lines a debug shim writes.  function = "" stands for a body
\* without that key: the python shim names the function in its stack only
MEvents ==
    { Event("stopped", [file |-> "entry", line |-> 1, function |-> "",
                        stack |-> <<[func |-> "main"]>>]),
      Event("stopped", [file |-> "entry", line |-> 1, function |-> "main",
                        stack |-> <<[func |-> "main"]>>]),
      Event("exception", [exception |-> "E"]),
      Event("evaluate_result", [expr |-> "x", value |-> "1"]),
      Event("breakpoints_set", [ok |-> TRUE]),
      Event("await_input", [prompt |-> "?"]),
      Event("output", [stream |-> "stdout", data |-> <<"?">>]),
      Event("output", [stream |-> "stdout", data |-> <<"x", "\n">>]),
      Event("output", [stream |-> "stderr", data |-> <<"E">>]),
      Event("terminated", [reason |-> "end"]) }

\* the client frames of the receive loop that are followed here
MClient == {"continue", "evaluate", "stop", "stdin", "unknown"}

Say(h, f) == [h EXCEPT !.wire = Append(@, f)]

\* the line as it came, forwarded as program output
RawOut(e) == MFrame("out", "", [line |-> e])

\* pump_stdout of the handler for `lang` on one event line
pump_stdout(lang, h, e) ==
    CASE e.event = "stopped" ->
           Say(h, MFrame("debug_event", "paused",
                  [file |-> e.body.file, line |-> e.body.line,
                   function |-> IF lang = "python"
                                THEN (IF e.body.stack # <<>>
                                      THEN e.body.stack[1].func ELSE "")
                                ELSE e.body.function,
                   stack |-> e.body.stack]))
      [] e.event \in {"exception", "evaluate_result"} ->
           Say(h, MFrame("debug_event", e.event, e.body))
      [] e.event = "terminated" ->
           [Say(h, MFrame("status", "", [data |-> "exited"])) EXCEPT !.ended = TRUE]
      [] e.event = "breakpoints_set" ->
           Say(h, MFrame("debug_event", "breakpoints", [synced |-> TRUE]))
      [] e.event = "await_input" /\ lang = "javascript" ->
           Say(h, MFrame("awaiting_input", "", [value |-> TRUE, prompt |-> e.body.prompt]))
      [] e.event = "output" /\ lang = "javascript" ->
           LET data == e.body.data
               stdout == e.body.stream = "stdout"
               o == Say(h, MFrame(IF stdout THEN "out" ELSE "err", "", [data |-> data]))
           IN  IF stdout /\ data # <<>> /\ data[Len(data)] # "\n"
               THEN Say(o, MFrame("awaiting_input", "", [value |-> TRUE]))
               ELSE o
      [] OTHER -> Say(h, RawOut(e))

MErr(text) == MFrame("err", "", [data |-> text])

\* the receive loop of the handler for `lang` on one client frame; `open`
\* says that the backend's stdin still takes a write (send_cmd succeeds)
handle_frame(lang, h, m, open) ==
    LET sent(c) == [h EXCEPT !.cmds = Append(@, c)]
        failed == Say(h, MErr("debug command failed"))
    IN  CASE m \in {"continue", "evaluate"} ->
               IF open THEN sent(m) ELSE failed
          [] m = "stop" ->
               IF open THEN [sent(m) EXCEPT !.ended = TRUE] ELSE failed
          [] m = "stdin" ->
               IF open
               THEN Say(sent(m), MFrame("awaiting_input", "", [value |-> FALSE]))
               ELSE IF lang = "python" THEN Say(h, MErr("stdin failed")) ELSE h
          [] OTHER -> Say(h, MErr("unknown msg"))

\* steps per behaviour
MaxMirror == 2

Mirroring == mirror.n < MaxMirror /\ ~mirror.py.ended /\ ~mirror.js.ended

\* the backends of both handlers write the same event line
MirrorEvent ==
    /\ Mirroring
    /\ \E e \in MEvents :
          mirror' = [py |-> pump_stdout("python", mirror.py, e),
                     js |-> pump_stdout("javascript", mirror.js, e),
                     n |-> mirror.n + 1]
    /\ UNCHANGED <<pumpVars, createVars, att, dbgVars, launched, adapter, pyio, talk>>

\* the clients of both handlers send the same frame
MirrorFrame ==
    /\ Mirroring
    /\ \E m \in MClient, open \in BOOLEAN :
          mirror' = [py |-> handle_frame("python", mirror.py, m, open),
                     js |-> handle_frame("javascript", mirror.js, m, open),
                     n |-> mirror.n + 1]
    /\ UNCHANGED <<pumpVars, createVars, att, dbgVars, launched, adapter, pyio, talk>>

MirrorInit ==
    /\ mirror = MirrorIdle
    /\ pyio = PyIoIdle
    /\ talk = TalkIdle
    /\ adapter = AdapterIdle
    /\ launched = <<>>
    /\ SESSIONS = <<>> /\ disk = {} /\ wdMade = 0 /\ procs = <<>>
    /\ posts = 0 /\ req = NoReq /\ resp = NoResp /\ att = <<>>
    /\ p_stream = <<>> /\ p_pos = 0 /\ p_carry = <<>> /\ p_last = <<>>
    /\ p_out = <<>> /\ p_nsent = 0 /\ p_pc = "done"
    /\ DebugIdle

MirrorNext == MirrorEvent \/ MirrorFrame

SpecMirror == MirrorInit /\ [][MirrorNext]_vars

\* C29: given the same backend events and the same client frames, the js
\* debug handler sends the same frames to the client and the same commands
\* to its backend as the python debug handler.
C29_HandlersMirror ==
    /\ mirror.py.wire = mirror.js.wire
    /\ mirror.py.cmds = mirror.js.cmds

\* a frame that forwards the JSON line of an await_input or output event
RawInputEvent(f) ==
    /\ f.type = "out"
    /\ "line" \in DOMAIN f.payload
    /\ f.payload.line.event \in {"await_input", "output"}

\* C34: in a python debug session the await_input and output events of the
\* shim reach the client as awaiting_input=true and as an out frame with the
\* prompt text, never as an out frame carrying the JSON line of the event.
C34_InputEventsTranslated ==
    \A k \in 1..Len(mirror.py.wire) : ~RawInputEvent(mirror.py.wire[k])

----------------------------------------------------------------------------
(* SpecQuery: the host-side adapters inside _handle_go_debug (ws_routes.py):*)
(* the dlv block (1323-1574) and the jdb block (1618-1930).  Each has a     *)
(* pump_stdout that reads the debugger's lines, a handle_paused that asks   *)
(* for stack and locals through send_query, and a receive loop whose        *)
(* evaluate uses send_query too.                                            *)
(*   block    "dlv" | "jdb"        script  what the debugger prints by itself*)
(*   out      lines written and not yet read: text, pause, resp, prompt     *)
(*   stdin    queries written and not yet taken by the debugger             *)
(*   pc       pump_stdout: "read" | "stack" | "locals" | "done"             *)
(*   loop     the receive loop: "recv" | "eval" | "left"                    *)
(*   future   whose future command_future holds: "none" | "pump" | "loop"   *)
(*   evald    the future of the loop's evaluate: "none"|"pending"|"response"*)

\* the lines a debugger prints by itself in one session
MaxScript == 2

QScripts ==
    { <<a>> : a \in {"text", "pause"} }
    \cup { <<a, b>> : a \in {"text", "pause"}, b \in {"text", "pause"} }

\* evaluate frames per session
MaxEval == 1

QSay(a, f) == [a EXCEPT !.wire = Append(@, f)]

PausedFrame(stack, locals) == [type |-> "paused", stack |-> stack, locals |-> locals]
EvalFrame(how) == [type |-> "evaluate_result", stack |-> how, locals |-> how]
OutFrame == [type |-> "out", stack |-> "none", locals |-> "none"]

\* send_query up to its await: the future is created and stored in
\* command_future, the buffer emptied, the command written
send_query(a, who, cmd) ==
    [a EXCEPT !.future = who, !.buffer = <<>>, !.stdin = Append(@, cmd)]

\* how an await of wait_for(fut, 3.0) ends for a future that was or was not
\* given its result
Awaited(set) == IF set THEN "response" ELSE "timeout"

\* the `finally` of send_query: command_future is released if it is still
\* this caller's future
query_done(a, who) ==
    IF a.future = who THEN [a EXCEPT !.future = "none", !.buffer = <<>>] ELSE a

\* the debugger prints the next line of its own
DbgPrint ==
    /\ adapter.open
    /\ adapter.script # <<>>
    /\ adapter' = [adapter EXCEPT
                     !.out = Append(@, Head(adapter.script)),
                     !.script = Tail(@),
                     !.printed = IF Head(adapter.script) = "pause" THEN @ + 1 ELSE @]
    /\ UNCHANGED <<pumpVars, createVars, att, dbgVars, launched, mirror, pyio, talk>>

\* the debugger takes a query and answers: one line, then its prompt
DbgAnswer ==
    /\ adapter.open
    /\ adapter.stdin # <<>>
    /\ adapter' = [adapter EXCEPT !.stdin = Tail(@),
                                  !.out = @ \o <<"resp", "prompt">>]
    /\ UNCHANGED <<pumpVars, createVars, att, dbgVars, launched, mirror, pyio, talk>>

\* the debugged program has ended and the debugger exits
DbgExit ==
    /\ adapter.open
    /\ adapter.script = <<>>
    /\ adapter.stdin = <<>>
    /\ adapter' = [adapter EXCEPT !.open = FALSE]
    /\ UNCHANGED <<pumpVars, createVars, att, dbgVars, launched, mirror, pyio, talk>>

\* pump_stdout on one non-empty line.  In the dlv block pump_stdout assigns
\* command_future without declaring it nonlocal, so its first read of the
\* name raises UnboundLocalError, which the `except Exception` turns into
\* exit_event.set().  The jdb block declares it nonlocal.
pump_stdout_line(a, line) ==
    IF a.block = "dlv"
    THEN [a EXCEPT !.exit_event = TRUE, !.pc = "done"]
    ELSE IF a.future # "none"
    THEN IF line = "prompt"
         THEN [a EXCEPT !.evald = IF a.future = "loop" THEN "response" ELSE @,
                        !.future = "none", !.buffer = <<>>]
         ELSE [a EXCEPT !.buffer = Append(@, line)]
    ELSE IF line = "prompt" THEN a
    ELSE IF line = "pause"
    \* await handle_paused(file, line): its first query
    THEN [send_query(a, "pump", "stack") EXCEPT !.pc = "stack"]
    ELSE QSay(a, OutFrame)

QueryLine ==
    /\ adapter.pc = "read"
    /\ adapter.out # <<>>
    /\ adapter' = pump_stdout_line([adapter EXCEPT !.out = Tail(@)], Head(adapter.out))
    /\ UNCHANGED <<pumpVars, createVars, att, dbgVars, launched, mirror, pyio, talk>>

\* readline() returns b"": exit_event.set()
QueryEof ==
    /\ adapter.pc = "read"
    /\ adapter.out = <<>>
    /\ ~adapter.open
    /\ adapter' = [adapter EXCEPT !.exit_event = TRUE, !.eof = TRUE, !.pc = "done"]
    /\ UNCHANGED <<pumpVars, createVars, att, dbgVars, launched, mirror, pyio, talk>>

\* handle_paused, resumed when the await inside send_query ends.  The
\* future is given its result only by pump_stdout, which is the coroutine
\* that waits here.
handle_paused ==
    /\ adapter.pc \in {"stack", "locals"}
    /\ LET how == Awaited(adapter.future # "pump")
           a == query_done(adapter, "pump")
       IN  adapter' =
             IF adapter.pc = "stack"
             THEN [send_query(a, "pump", "locals") EXCEPT !.stack = how, !.pc = "locals"]
             ELSE [QSay(a, PausedFrame(adapter.stack, how)) EXCEPT
                     !.stack = "none", !.pc = "read"]
    /\ UNCHANGED <<pumpVars, createVars, att, dbgVars, launched, mirror, pyio, talk>>

\* debug_cmd evaluate: send_query raises when a query is in flight
ClientEvaluate ==
    /\ adapter.loop = "recv"
    /\ ~adapter.exit_event
    /\ adapter.frames < MaxEval
    /\ adapter' =
         IF adapter.future # "none"
         THEN [QSay(adapter, EvalFrame("error")) EXCEPT !.frames = @ + 1]
         ELSE [send_query(adapter, "loop", "print") EXCEPT
                 !.loop = "eval", !.evald = "pending", !.frames = @ + 1]
    /\ UNCHANGED <<pumpVars, createVars, att, dbgVars, launched, mirror, pyio, talk>>

\* the await of the loop's evaluate ends: with the result pump_stdout gave
\* the future, or after 3 s without one
EvalReturn ==
    /\ adapter.loop = "eval"
    /\ adapter' = [QSay(query_done(adapter, "loop"),
                        EvalFrame(Awaited(adapter.evald = "response"))) EXCEPT
                     !.loop = "recv", !.evald = "none"]
    /\ UNCHANGED <<pumpVars, createVars, att, dbgVars, launched, mirror, pyio, talk>>

\* the receive loop sees exit_event and leaves; the finally terminates the
\* debugger and cancels the pump
QueryLeave ==
    /\ adapter.loop = "recv"
    /\ adapter.exit_event
    /\ adapter' = [adapter EXCEPT !.loop = "left", !.pc = "done", !.open = FALSE]
    /\ UNCHANGED <<pumpVars, createVars, att, dbgVars, launched, mirror, pyio, talk>>

QueryInit ==
    /\ \E b \in {"dlv", "jdb"}, s \in QScripts :
          adapter = [AdapterIdle EXCEPT !.block = b, !.script = s, !.open = TRUE,
                                        !.pc = "read", !.loop = "recv"]
    /\ mirror = MirrorIdle
    /\ pyio = PyIoIdle
    /\ talk = TalkIdle
    /\ launched = <<>>
    /\ SESSIONS = <<>> /\ disk = {} /\ wdMade = 0 /\ procs = <<>>
    /\ posts = 0 /\ req = NoReq /\ resp = NoResp /\ att = <<>>
    /\ p_stream = <<>> /\ p_pos = 0 /\ p_carry = <<>> /\ p_last = <<>>
    /\ p_out = <<>> /\ p_nsent = 0 /\ p_pc = "done"
    /\ DebugIdle

QueryNext ==
    \/ DbgPrint
    \/ DbgAnswer
    \/ DbgExit
    \/ QueryLine
    \/ QueryEof
    \/ handle_paused
    \/ ClientEvaluate
    \/ EvalReturn
    \/ QueryLeave

SpecQuery == QueryInit /\ [][QueryNext]_vars

PausedFrames == {k \in 1..Len(adapter.wire) : adapter.wire[k].type = "paused"}

\* C32: in a Go debug session an ordinary output line of delve does not end
\* the session (exit_event is set only at the end of delve's output), and once
\* all of delve's lines are handled there is exactly one paused event for
\* every pause line delve printed.
C32_PausedPerPause ==
    adapter.block = "dlv" =>
        /\ adapter.exit_event => adapter.eof
        /\ (adapter.script = <<>> /\ adapter.out = <<>> /\ adapter.pc = "read")
              => Cardinality(PausedFrames) = adapter.printed

Line(t, d) == [type |-> t, data |-> d]

\* lines written to the shim per session, steps of the script per session
MaxLines == 4
MaxSteps == 3

\* the types _handle_python_debug writes
LineTypes == {"stdin", "continue", "evaluate", "stop"}

\* the handler writes one line: write and drain of send_cmd
ShimWrite ==
    /\ pyio.pc # "ended"
    /\ Len(pyio.written) < MaxLines
    /\ \E t \in LineTypes :
          LET l == Line(t, Len(pyio.written) + 1) IN
          pyio' = [pyio EXCEPT !.pipe = Append(@, l), !.written = Append(@, l)]
    /\ UNCHANGED <<pumpVars, createVars, att, dbgVars, launched, mirror, adapter, talk>>

\* every line goes to COMMAND_QUEUE
read_commands_any(io) ==
    [io EXCEPT !.pipe = Tail(@), !.COMMAND_QUEUE = Append(@, Head(io.pipe))]

\* read_commands, one line: a stdin line leaves its data on INPUT_QUEUE,
\* any other line goes to COMMAND_QUEUE
read_commands(io) ==
    LET cmd == Head(io.pipe) IN
    IF cmd.type = "stdin"
    THEN [io EXCEPT !.pipe = Tail(@), !.INPUT_QUEUE = Append(@, cmd.data)]
    ELSE [io EXCEPT !.pipe = Tail(@), !.COMMAND_QUEUE = Append(@, cmd)]

\* the reader thread runs whatever the script is doing
ReadLine ==
    /\ pyio.pc # "ended"
    /\ pyio.pipe # <<>>
    /\ pyio' = read_commands(pyio)
    /\ UNCHANGED <<pumpVars, createVars, att, dbgVars, launched, mirror, adapter, talk>>

PyEvent(io, e) == [io EXCEPT !.events = Append(@, e)]

\* _oc_input up to the blocking get of _wait_for_input: the prompt, when
\* there is one, as an output event, then await_input
oc_input(io, prompt) ==
    LET shown == IF prompt # "" THEN PyEvent(io, "output") ELSE io IN
    [PyEvent(shown, "await_input") EXCEPT
        !.pc = "input", !.calls = @ + 1,
        !.early = @ \/ io.INPUT_QUEUE # <<>>, !.steps = @ + 1]

\* the script calls input()
ScriptInput ==
    /\ pyio.pc = "running"
    /\ pyio.steps < MaxSteps
    /\ \E prompt \in {"", "?"} : pyio' = oc_input(pyio, prompt)
    /\ UNCHANGED <<pumpVars, createVars, att, dbgVars, launched, mirror, adapter, talk>>

\* self.input_queue.get() returns
wait_for_input ==
    /\ pyio.pc = "input"
    /\ pyio.INPUT_QUEUE # <<>>
    /\ pyio' = [pyio EXCEPT !.INPUT_QUEUE = Tail(@),
                            !.returned = Append(@, Head(pyio.INPUT_QUEUE)),
                            !.pc = "running"]
    /\ UNCHANGED <<pumpVars, createVars, att, dbgVars, launched, mirror, adapter, talk>>

\* user_line: bdb stops the script, stopped is written and the shim waits
\* in _wait_for_command
ScriptStop ==
    /\ pyio.pc = "running"
    /\ pyio.steps < MaxSteps
    /\ pyio' = [PyEvent(pyio, "stopped") EXCEPT !.pc = "paused", !.steps = @ + 1]
    /\ UNCHANGED <<pumpVars, createVars, att, dbgVars, launched, mirror, adapter, talk>>

\* _wait_for_command, one command off COMMAND_QUEUE
ShimCommand ==
    /\ pyio.pc = "paused"
    /\ pyio.COMMAND_QUEUE # <<>>
    /\ LET cmd == Head(pyio.COMMAND_QUEUE)
           took == [pyio EXCEPT !.COMMAND_QUEUE = Tail(@),
                                !.handled = Append(@, cmd)]
       IN  pyio' = CASE cmd.type = "continue" -> [took EXCEPT !.pc = "running"]
                     [] cmd.type = "evaluate" -> PyEvent(took, "evaluate_result")
                     [] cmd.type = "stop" ->
                          [PyEvent(took, "terminated") EXCEPT !.pc = "ended"]
                     [] OTHER -> took
    /\ UNCHANGED <<pumpVars, createVars, att, dbgVars, launched, mirror, adapter, talk>>

\* dbg.run returns: terminated, and the shim exits
ScriptEnd ==
    /\ pyio.pc = "running"
    /\ pyio' = [PyEvent(pyio, "terminated") EXCEPT !.pc = "ended"]
    /\ UNCHANGED <<pumpVars, createVars, att, dbgVars, launched, mirror, adapter, talk>>

InputInit ==
    /\ pyio = [PyIoIdle EXCEPT !.pc = "running"]
    /\ talk = TalkIdle
    /\ adapter = AdapterIdle
    /\ mirror = MirrorIdle
    /\ launched = <<>>
    /\ SESSIONS = <<>> /\ disk = {} /\ wdMade = 0 /\ procs = <<>>
    /\ posts = 0 /\ req = NoReq /\ resp = NoResp /\ att = <<>>
    /\ p_stream = <<>> /\ p_pos = 0 /\ p_carry = <<>> /\ p_last = <<>>
    /\ p_out = <<>> /\ p_nsent = 0 /\ p_pc = "done"
    /\ DebugIdle

InputNext ==
    \/ ShimWrite
    \/ ReadLine
    \/ ScriptInput
    \/ wait_for_input
    \/ ScriptStop
    \/ ShimCommand
    \/ ScriptEnd

SpecInput == InputInit /\ [][InputNext]_vars

\* the stdin payloads among the lines s, the other lines among them
Payloads(s) == SelectSeq(s, LAMBDA l : l.type = "stdin")
Commands(s) == SelectSeq(s, LAMBDA l : l.type # "stdin")

AwaitInputs == Cardinality({k \in 1..Len(pyio.events) : pyio.events[k] = "await_input"})

\* C35: stdin data and debugger commands never cross in the python shim.
\* Every input() call has written exactly one await_input event; the values
\* input() has returned are, in order, the first stdin payloads written to
\* the shim (each once, the oldest first, also when it was queued before the
\* call), and a call still blocked is the one after them; the commands
\* handled in _wait_for_command are, in order, the first lines written that
\* are not stdin lines.
C35_InputAndCommandsApart ==
    /\ AwaitInputs = pyio.calls
    /\ pyio.calls = Len(pyio.returned) + (IF pyio.pc = "input" THEN 1 ELSE 0)
    /\ Len(pyio.returned) <= Len(Payloads(pyio.written))
    /\ \A k \in 1..Len(pyio.returned) :
           pyio.returned[k] = Payloads(pyio.written)[k].data
    /\ Len(pyio.handled) <= Len(Commands(pyio.written))
    /\ \A k \in 1..Len(pyio.handled) :
           pyio.handled[k] = Commands(pyio.written)[k]

\* two input() calls have returned, one of them with a payload that was
\* already queued, and a command written between the two payloads was handled
C35_Witness ==
    /\ Len(pyio.returned) >= 2
    /\ pyio.early
    /\ pyio.handled # <<>>
    /\ pyio.handled[1].data > pyio.returned[1]
    /\ pyio.handled[1].data < pyio.returned[2]

\* ---- SpecTalk: ws_run between a client that types and a child that reads ----

\* what a child does next: write a prompt without a newline, write the
\* sentinel (the input() of the python bootstrap), write a line, read a line
PromptText == <<"?", " ">>
LineText == <<"o", "k", "\n">>

Written(op) ==
    CASE op = "prompt" -> PromptText
      [] op = "await"  -> SENTINEL
      [] OTHER         -> LineText

\* a python script calling input() twice under the bootstrap; a program that
\* prompts once and reads twice from its standard input
TalkProgs ==
    { <<"await", "read", "print", "await", "read">>,
      <<"prompt", "read", "print", "read">> }

\* `in` frames per session
MaxIn == 2

\* an edge or output frame on the socket; n is the `in` frame a false edge
\* answers, or the last `in` frame the child had read from when it wrote
\* the output behind the frame
TalkFrame(tag, n) == [tag |-> tag, n |-> n]

\* ws_run on an `in` frame: proc.stdin.write(data), then await drain().
\* The transport writes what the pipe takes; drain() returns at once unless
\* the rest left in the transport's buffer is above its high-water mark
\* (size = "large"), and then the handler waits there.
TalkIn(size) ==
    /\ talk.pc = "loop"
    /\ talk.frames < MaxIn
    /\ LET n == talk.frames + 1
           wrote == [talk EXCEPT !.frames = n, !.stdin = Append(@, n)]
       IN  talk' = IF size = "small"
                   THEN [wrote EXCEPT !.wire = Append(@, TalkFrame("await_false", n))]
                   ELSE [wrote EXCEPT !.buffer = <<n>>, !.pc = "drain"]
    /\ UNCHANGED <<pumpVars, createVars, att, dbgVars, launched, mirror, adapter, pyio>>

\* the pipe has room again: the transport writes the rest of its buffer
TalkFlush ==
    /\ talk.buffer # <<>>
    /\ talk.stdin = <<>>
    /\ talk' = [talk EXCEPT !.stdin = talk.buffer, !.buffer = <<>>]
    /\ UNCHANGED <<pumpVars, createVars, att, dbgVars, launched, mirror, adapter, pyio>>

\* drain() returns: awaiting_input false is sent for the frame
TalkDrained ==
    /\ talk.pc = "drain"
    /\ talk.buffer = <<>>
    /\ talk' = [talk EXCEPT !.pc = "loop",
                            !.wire = Append(@, TalkFrame("await_false", talk.frames))]
    /\ UNCHANGED <<pumpVars, createVars, att, dbgVars, launched, mirror, adapter, pyio>>

\* the child reads a line of its standard input
TalkRead ==
    /\ talk.prog # <<>>
    /\ Head(talk.prog) = "read"
    /\ talk.stdin # <<>>
    /\ talk' = [talk EXCEPT !.prog = Tail(@), !.stdin = Tail(@),
                            !.reads = Head(talk.stdin)]
    /\ UNCHANGED <<pumpVars, createVars, att, dbgVars, launched, mirror, adapter, pyio>>

\* the child writes to its standard output
TalkWrite ==
    /\ talk.prog # <<>>
    /\ Head(talk.prog) # "read"
    /\ talk' = [talk EXCEPT !.prog = Tail(@),
                            !.out = Append(@, [data |-> Written(Head(talk.prog)),
                                               after |-> talk.reads])]
    /\ UNCHANGED <<pumpVars, createVars, att, dbgVars, launched, mirror, adapter, pyio>>

\* pump_async on one chunk of stdout
TalkPump ==
    /\ talk.out # <<>>
    /\ LET it == Head(talk.out)
           r == PumpChunk(talk.carry, it.data)
           tags == Tags(r.frames)
       IN  talk' = [talk EXCEPT
                      !.out = Tail(@), !.carry = r.carry,
                      !.wire = @ \o [k \in 1..Len(tags) |-> TalkFrame(tags[k], it.after)]]
    /\ UNCHANGED <<pumpVars, createVars, att, dbgVars, launched, mirror, adapter, pyio>>

TalkInit ==
    /\ \E p \in TalkProgs : talk = [TalkIdle EXCEPT !.prog = p, !.pc = "loop"]
    /\ pyio = PyIoIdle
    /\ adapter = AdapterIdle
    /\ mirror = MirrorIdle
    /\ launched = <<>>
    /\ SESSIONS = <<>> /\ disk = {} /\ wdMade = 0 /\ procs = <<>>
    /\ posts = 0 /\ req = NoReq /\ resp = NoResp /\ att = <<>>
    /\ p_stream = <<>> /\ p_pos = 0 /\ p_carry = <<>> /\ p_last = <<>>
    /\ p_out = <<>> /\ p_nsent = 0 /\ p_pc = "done"
    /\ DebugIdle

TalkNext ==
    \/ \E size \in {"small", "large"} : TalkIn(size)
    \/ TalkFlush
    \/ TalkDrained
    \/ TalkRead
    \/ TalkWrite
    \/ TalkPump

SpecTalk == TalkInit /\ [][TalkNext]_vars

\* the awaiting_input edges sent so far, in order
TalkEdges == SelectSeq(talk.wire, LAMBDA f : IsAwait(f.tag))

\* the child waits in a read with nothing left for it to read, the handler is
\* in its loop, and the pump has sent all the child wrote
BlockedOnInput ==
    /\ talk.prog # <<>> /\ Head(talk.prog) = "read"
    /\ talk.stdin = <<>> /\ talk.buffer = <<>>
    /\ talk.pc = "loop"
    /\ talk.out = <<>> /\ talk.carry = <<>>

\* C37: in a run session the awaiting_input false of a forwarded `in` frame
\* is on the socket before any awaiting_input true that comes from output the
\* child wrote after reading that input; and whenever the child is blocked on
\* input with all its output pumped, the last awaiting_input edge sent is true.
C37_FalseBeforeNextTrue ==
    /\ \A k \in 1..Len(talk.wire) :
          (talk.wire[k].tag = "await_true" /\ talk.wire[k].n > 0) =>
              \E j \in 1..(k - 1) :
                  talk.wire[j] = TalkFrame("await_false", talk.wire[k].n)
    /\ (BlockedOnInput /\ TalkEdges # <<>>) =>
           TalkEdges[Len(TalkEdges)].tag = "await_true"
\* the frame is a breakpoints event that reports breakpoints added or removed
IsBpChange(f) == f.type = "breakpoints" /\ "sent" \in DOMAIN f.body

\* C16: when a breakpoints {added} or {removed} event is sent, the handler
\* has read a breakpoints_set acknowledgement of the backend for every
\* set_breakpoints command it has written, the one of this change included.
C16_EventAfterAck ==
    \A k \in 1..Len(d_wire) :
        IsBpChange(d_wire[k]) => d_wire[k].body.acks >= d_wire[k].body.sent

\* the key a breakpoint is known by: the file as the debugger resolves it,
\* and the line
KeyOf(f, l) == [file |-> canonic(normalize_path(f)), line |-> l]

\* C18: a remove_breakpoint takes a breakpoint off the handler's list under
\* whatever spelling of the file it was added: after remove {file: "m.py",
\* line: l} the list holds no entry that resolves to the same file and line,
\* such as {file: "/work/m.py", line: l}.
C18_RemoveByCanonicalKey ==
    [][\A l \in ClientLines :
          HostRemove(P_rel, l) =>
              \A k \in 1..Len(d_list') :
                  KeyOf(d_list'[k].file, d_list'[k].line) # KeyOf(P_rel, l)]_vars

\* C19: an evaluate sent while the program is not stopped is not written to
\* the shim; it is answered at once with evaluate_result {expr, error: "not
\* paused"}.
C19_EvaluateNeedsPause ==
    [][(HostEvaluate /\ d_run.state # "paused") =>
          /\ d_cmds' = d_cmds
          /\ d_wire' = Append(d_wire,
                DFrame("evaluate_result", [expr |-> "x", error |-> "not paused"]))]_vars

\* C17: an add_breakpoint {f, l} for a breakpoint that neither the list nor
\* the debugger has, followed by remove_breakpoint {f, l}, leaves, once
\* nothing is in flight any more, the handler's list and the (file, line)
\* keys of the shim's registry as they were before the add, and the debugger
\* without a live breakpoint at (f, l).
C17_RoundTrip ==
    (d_probe.phase = 2 /\ Quiet) =>
        /\ d_list = d_probe.list
        /\ Registry = d_probe.ids
        /\ ~LiveAt(d_probe.bp)

\* C20: every paused event sent to the client carries a stack of at least
\* one frame, and its file and line are those of the top frame, also when a
\* stack or locals query of the shim failed or timed out.
C20_PausedHasStack ==
    \A k \in 1..Len(d_wire) :
        d_wire[k].type = "paused" =>
            LET b == d_wire[k].body IN
                /\ Len(b.stack) >= 1
                /\ b.stack[1].file = b.file
                /\ b.stack[1].line = b.line

\* the task of the shim waits in send_cmd for a future that nothing has
\* resolved yet
Awaiting(who) ==
    /\ d_shim[who].pc \in {"apply", "resume", "eval", "stack", "locals"}
    /\ d_shim[who].res = NoRes

\* C21: in the gdb/MI shim at most one command awaits a response at any
\* instant: pump_commands and handle_stop never both wait for a future that
\* is still unresolved.
C21_OneAwaiting == ~(Awaiting("cmd") /\ Awaiting("stop"))

\* C22: the number the gdb shim's registry records for (file, line) is the
\* number gdb gave to the breakpoint it inserted at that file and line: every
\* send_cmd is resumed with the response to its own command.
C22_OwnResponse ==
    \A r \in d_shim.ids :
        \E b \in d_breaks :
            b.id = r.id /\ b.file = GdbFile(r.file) /\ b.line = r.line

\* C23: a send_cmd of the gdb shim's command loop that times out fails that
\* command only: pump_commands is back at CMD_QUEUE afterwards, ready for
\* the commands that follow.
C23_TimeoutKeepsLoop ==
    [][CppTimeout => d_shim'.cmd.pc = "idle"]_vars

\* the commands that make the debugged program run on
ResumeCmds == {"continue", "step_over", "step_in", "step_out"}

\* the shim has just written a stopped event
StoppedEmitted ==
    /\ Len(d_events') = Len(d_events) + 1
    /\ d_events'[Len(d_events')].event = "stopped"

\* C26: every stopped event after the first is preceded by a resume command
\* (continue, step_over, step_in, step_out) that the python shim consumed
\* since the stop before it: a stop is only reported by a running script,
\* and a script that was stopped only runs again by consuming such a command.
C26_StopNeedsResume ==
    [][/\ StoppedEmitted => (d_run.state = "running" /\ d_run'.state = "paused")
       /\ (d_run.state = "paused" /\ d_run'.state = "running") =>
              /\ d_cmds # <<>>
              /\ Head(d_cmds).type \in ResumeCmds
              /\ d_cmds' = Tail(d_cmds)]_vars

C26_Witness ==
    /\ d_lang = "python"
    /\ Cardinality({k \in 1..Len(d_wire) : d_wire[k].type = "paused"}) >= 2

\* a pump or the watchdog of attachment i is cancelled in this step
TasksCancelled(i) ==
    \/ att[i].out_task = "running" /\ att'[i].out_task = "cancelled"
    \/ att[i].err_task = "running" /\ att'[i].err_task = "cancelled"
    \/ att[i].t_wd = "armed" /\ att'[i].t_wd = "cancelled"

\* C31: the supervisor of a run session releases what it owns in reverse
\* order of acquisition: the pumps and the watchdog are cancelled while the
\* child is still to be reaped, and the workdir is removed only after the
\* child has ended and no task of the supervisor runs.
C31_ReleaseLifo ==
    [][\A i \in 1..Len(att) :
          (att[i].handler = "run" /\ att[i].proc # 0) =>
              /\ TasksCancelled(i) => procs[att[i].proc].alive
              /\ (att[i].workdir \in disk /\ att[i].workdir \notin disk') =>
                    /\ ~procs[att[i].proc].alive
                    /\ att[i].out_task # "running"
                    /\ att[i].err_task # "running"
                    /\ att[i].t_wd # "armed"]_vars

\* C36: a client frame that is valid JSON but not an object (a number, a
\* string, an array, null or a boolean) is answered like any other malformed
\* frame: exactly one err frame, the child left as it was, and the handler
\* back in its receive loop for the frames that follow.
C36_NonObjectNonFatal ==
    [][\A i \in 1..Len(att) :
          Receive(i, "non_object") =>
              /\ att'[i].wire = Append(att[i].wire, "err:msg")
              /\ att'[i].pc = "loop"
              /\ procs' = procs]_vars

\* C38: a resume command (continue, step_over, step_in, step_out) resumes
\* only the stop that was current when it was sent: when the python shim
\* writes a stopped event, no resume command sent before that stop is still
\* held for it, so the program stays paused until a later command arrives.
C38_NoStaleResume ==
    [][StoppedEmitted =>
          \A k \in 1..Len(d_cmds') : d_cmds'[k].type \notin ResumeCmds]_vars

\* the python shim, paused, takes a command off its queue
TakesCommand ==
    /\ d_lang = "python"
    /\ d_run.state = "paused"
    /\ d_cmds # <<>>
    /\ d_cmds' = Tail(d_cmds)

\* the events written in this step
NewEvents == {d_events'[k].event : k \in (Len(d_events) + 1)..Len(d_events')}

\* the breakpoints of a set_breakpoints list under _normalize_path, by the
\* key bdb files them under
Normalised(list) ==
    {BpOf(canonic(normalize_path(b.file)), b.line) : b \in Range(list)}

\* C39: while the python shim is paused, evaluate, set_breakpoints and any
\* unrecognised command leave the program paused at the same line and write
\* no stopped or terminated event; only continue, step_over, step_in,
\* step_out and stop end the pause; and set_breakpoints replaces the whole
\* breakpoint set with exactly the normalised list it was given, no other
\* command touching it.
C39_PausedCommands ==
    [][TakesCommand =>
          LET cmd == Head(d_cmds)
              t == cmd.type
          IN  /\ t \notin (ResumeCmds \cup {"stop"}) =>
                    /\ d_run' = d_run
                    /\ NewEvents \cap {"stopped", "terminated"} = {}
              /\ d_breaks' = IF t = "set_breakpoints"
                             THEN Normalised(cmd.breakpoints) ELSE d_breaks]_vars

\* ids of processes and workdirs in a behaviour
Ids == 1..(MaxCreates + MaxAttach)

\* C40: every backend process and workdir that create_run spawned for a
\* debug session is released in the end, the process ended and the workdir
\* removed, also when no client ever attaches to the session.
C40_DebugBackendReleased ==
    \A s \in 1..MaxCreates : \A p \in Ids : \A w \in Ids :
        (s \in 1..Len(SESSIONS) /\ SESSIONS[s].proc = p /\ SESSIONS[s].workdir = w)
            ~> (p \in 1..Len(procs) /\ ~procs[p].alive /\ w \notin disk)

====
